---- MODULE Spec2Model ----
(***************************************************************************)
(* A model of the Source configuration service client (package src).       *)
(*                                                                         *)
(* The client turns typed values into HTTP requests and responses back     *)
(* into typed values.  Every operation builds one request and hands it to  *)
(* a retrying executor (go-retryablehttp v0.7.1, configured in New).  The  *)
(* remote service and the network are the environment: each attempt ends   *)
(* with a transport failure or with a response the service chooses.        *)
(*                                                                         *)
(* Strings the code inspects character by character (keys) are sequences   *)
(* of one-character strings; strings it only compares or measures for      *)
(* emptiness (item type, tag name) are TLA+ strings.  Time is in seconds   *)
(* for the executor and in milliseconds for the wall clock.                *)
(***************************************************************************)
EXTENDS Integers, Sequences, FiniteSets, TLC

VARIABLES
    client,     \* the Client built by New: host, token, RetryMax, Timeout
    pc,         \* "idle" | "inflight" | "returned" | "panicked": position of the one caller
    call,       \* the operation being called and its arguments
    req,        \* the request the operation built (NoReq before it builds one)
    attempt,    \* attempts the executor has sent for the current call
    elapsed,    \* seconds since the first attempt of the current call
    last,       \* outcome and duration of the latest attempt
    result,     \* what the call returned: [val, err]
    store,      \* the remote store: items of every type, oldest first
    now,        \* the wall clock: [day, ms]
    generated,  \* keys resolved from wildcard patterns so far, in call order
    saved,      \* Save calls that succeeded since the store was last empty
    il,         \* the item collection given to IL.Typed
    typed,      \* what IL.Typed returned for il
    peer        \* a second caller of the same client: [pc, call, req, attempt,
                \* last, result]

vars == <<client, pc, call, req, attempt, elapsed, last, result, store, now,
          generated, saved, il, typed, peer>>

(***************************************************************************)
(* Bounds of the model.                                                    *)
(***************************************************************************)
MaxItems == 3       \* items the remote store holds at most
MaxTicks == 3       \* milliseconds the wall clock advances at most
MaxLen == 3         \* length of an item collection, and of a key pattern

(***************************************************************************)
(* Program constants.                                                      *)
(***************************************************************************)
RetryMax == 20              \* c.RetryMax = 20
DefaultTimeout == 60        \* defaultOptions: 60 * time.Second
MinTimeout == 30            \* ClientOptions.Validate: 30 * time.Second
RetryWaitMin == 1           \* retryablehttp.NewClient: 1 * time.Second
RetryWaitMax == 30          \* retryablehttp.NewClient: 30 * time.Second
StatusNotFound == 404       \* http.StatusNotFound
MaxSuccess == 299           \* resp.StatusCode > 299
EpochYear == 2022           \* the year the modelled wall clock starts in

(***************************************************************************)
(* Strings.                                                                *)
(***************************************************************************)
Wildcard == "?"

\* strings.Contains(s, c) for a one-character c
Contains(s, c) == \E i \in 1..Len(s) : s[i] = c

\* strings.Index(s, c): the first position of c in s (0 when absent)
Index(s, c) ==
    IF Contains(s, c)
    THEN CHOOSE i \in 1..Len(s) : s[i] = c /\ \A j \in 1..(i - 1) : s[j] # c
    ELSE 0

\* strings.Replace(s, c, new, 1): the first c replaced by new
ReplaceFirst(s, c, new) ==
    LET i == Index(s, c)
    IN  IF i = 0 THEN s
        ELSE SubSeq(s, 1, i - 1) \o new \o SubSeq(s, i + 1, Len(s))

\* the byte value of a character of the model's alphabet
Ascii(c) ==
    CASE c = "." -> 46
      [] c = "0" -> 48 [] c = "1" -> 49 [] c = "2" -> 50 [] c = "3" -> 51
      [] c = "4" -> 52 [] c = "5" -> 53 [] c = "6" -> 54 [] c = "7" -> 55
      [] c = "8" -> 56 [] c = "9" -> 57
      [] c = ":" -> 58
      [] c = "?" -> 63
      [] c = "I" -> 73
      [] c = "_" -> 95
      [] c = "a" -> 97 [] c = "b" -> 98 [] c = "c" -> 99 [] c = "d" -> 100
      [] c = "i" -> 105 [] c = "m" -> 109 [] c = "n" -> 110

\* byte-wise comparison of two strings, as Go's <= on strings
RECURSIVE LexLeq(_, _)
LexLeq(a, b) ==
    IF a = <<>> THEN TRUE
    ELSE IF b = <<>> THEN FALSE
    ELSE IF Head(a) = Head(b) THEN LexLeq(Tail(a), Tail(b))
    ELSE Ascii(Head(a)) < Ascii(Head(b))

(***************************************************************************)
(* The wall clock and time.Now().UTC().Format("20060102150405.000").       *)
(* now = [day, ms]: days since 1 January of EpochYear, and milliseconds    *)
(* since midnight UTC.                                                     *)
(***************************************************************************)
MsPerDay == 24 * 60 * 60 * 1000

Digits == <<"0", "1", "2", "3", "4", "5", "6", "7", "8", "9">>

\* n written in decimal, zero-padded to w digits (the layout's 2006, 01, 000)
RECURSIVE Pad(_, _)
Pad(n, w) ==
    IF w = 0 THEN <<>> ELSE Pad(n \div 10, w - 1) \o <<Digits[(n % 10) + 1]>>

IsLeap(y) == (y % 4 = 0 /\ y % 100 # 0) \/ y % 400 = 0

DaysInYear(y) == IF IsLeap(y) THEN 366 ELSE 365

DaysInMonth(y, m) ==
    IF m = 2 THEN (IF IsLeap(y) THEN 29 ELSE 28)
    ELSE IF m \in {4, 6, 9, 11} THEN 30 ELSE 31

\* the civil date of day d counted from 1 January of year y
RECURSIVE YearOf(_, _)
YearOf(d, y) ==
    IF d < DaysInYear(y) THEN [year |-> y, yday |-> d]
    ELSE YearOf(d - DaysInYear(y), y + 1)

RECURSIVE MonthOf(_, _, _)
MonthOf(y, yday, m) ==
    IF yday < DaysInMonth(y, m) THEN [month |-> m, day |-> yday + 1]
    ELSE MonthOf(y, yday - DaysInMonth(y, m), m + 1)

\* a plausible slip: the layout's hour written 03 (12-hour clock) for 15
FormatNow12(t) ==
    LET yd == YearOf(t.day, EpochYear)
        md == MonthOf(yd.year, yd.yday, 1)
        secs == t.ms \div 1000
        h == (secs \div 3600) % 12
    IN  Pad(yd.year, 4) \o Pad(md.month, 2) \o Pad(md.day, 2)
        \o Pad(IF h = 0 THEN 12 ELSE h, 2) \o Pad((secs \div 60) % 60, 2)
        \o Pad(secs % 60, 2) \o <<".">> \o Pad(t.ms % 1000, 3)

\* Format("20060102150405.000"): YYYYMMDDhhmmss.mmm, 18 characters
FormatNow(t) ==
    LET yd == YearOf(t.day, EpochYear)
        md == MonthOf(yd.year, yd.yday, 1)
        secs == t.ms \div 1000
    IN  Pad(yd.year, 4) \o Pad(md.month, 2) \o Pad(md.day, 2)
        \o Pad(secs \div 3600, 2) \o Pad((secs \div 60) % 60, 2)
        \o Pad(secs % 60, 2) \o <<".">> \o Pad(t.ms % 1000, 3)

\* the instant d milliseconds after t
AddMs(t, d) ==
    [day |-> t.day + ((t.ms + d) \div MsPerDay), ms |-> (t.ms + d) % MsPerDay]

\* whether instant b is at least d milliseconds after instant a
AtLeastAfter(a, b, d) ==
    \/ b.day > a.day + 1
    \/ b.day = a.day + 1 /\ b.ms + MsPerDay >= a.ms + d
    \/ b.day = a.day /\ b.ms >= a.ms + d

(***************************************************************************)
(* Errors.  A Go error is its message; the model keeps the format string,  *)
(* the response status and body text formatted into it, and the attempt    *)
(* count the executor formats into its own errors.  kind names the class   *)
(* the specification gives the error.                                      *)
(***************************************************************************)
Err(kind, fmt, status, detail, attempts) ==
    [kind |-> kind, fmt |-> fmt, status |-> status, detail |-> detail,
     attempts |-> attempts]

NoErr == Err("nil", "", "", "", 0)

UsageErr(fmt) == Err("usage", fmt, "", "", 0)

\* fmt.Errorf("... source server responded with: %s", resp.Status)
RemoteErr(fmt, status) == Err("remote", fmt, status, "", 0)

(***************************************************************************)
(* Values and their JSON encoding.  An item value is a struct, a record   *)
(* of its fields: ClientOptions, with its boolean and its duration, or a   *)
(* struct of the caller that embeds ClientOptions, which gives it the      *)
(* Validate method Save asks for and, in encoding/json, the two fields as  *)
(* its own, and that declares more fields: owner, an unexported integer,   *)
(* Extra, an exported field of interface type, or Done, an exported        *)
(* channel.  An encoded payload is a well-formed object, given by its      *)
(* members in order, or text that is not JSON.                             *)
(***************************************************************************)
Member(name, t, b, n) == [name |-> name, t |-> t, b |-> b, n |-> n]

\* the fields a struct of the model can declare, in declaration order
Layout ==
    << [name |-> "InsecureSkipVerify", exported |-> TRUE, kind |-> "bool"],
       [name |-> "Timeout", exported |-> TRUE, kind |-> "num"],
       [name |-> "owner", exported |-> FALSE, kind |-> "num"],
       [name |-> "Extra", exported |-> TRUE, kind |-> "iface"],
       [name |-> "Done", exported |-> TRUE, kind |-> "chan"] >>

\* the fields of the struct that v is a value of
Fields(v) == SelectSeq(Layout, LAMBDA f : f.name \in DOMAIN v)

\* the nil value of a field of interface type; another value of such a
\* field is its dynamic type with the boolean or the number it holds
NilDyn == [type |-> "nil", b |-> FALSE, n |-> 0]

\* the zero value of v's type, as new(T) or a factory makes it
Zero(v) ==
    [name \in DOMAIN v |->
        LET f == Layout[CHOOSE i \in 1..Len(Layout) : Layout[i].name = name]
        IN  CASE f.kind = "bool" -> FALSE
              [] f.kind = "num" -> 0
              [] f.kind = "iface" -> NilDyn
              [] f.kind = "chan" -> FALSE]

Payload(ok, members) == [ok |-> ok, members |-> members]

NoPayload == Payload(FALSE, <<>>)

\* the zero value a factory or new(T) returns
ZeroObj == [InsecureSkipVerify |-> FALSE, Timeout |-> 0]

\* json.Marshal of a struct value, (data, err): the exported fields in
\* declaration order, an unexported field left out, a field of interface
\* type as the value it holds (null, a boolean, a string, whose text the
\* model does not keep, or a number); a channel has no encoding and is an
\* error
Marshal(v) ==
    LET fs == SelectSeq(Fields(v), LAMBDA f : f.exported)
        enc(f) ==
            CASE f.kind = "bool" -> Member(f.name, "bool", v[f.name], 0)
              [] f.kind = "num" -> Member(f.name, "num", FALSE, v[f.name])
              [] f.kind = "iface" ->
                    CASE v[f.name].type = "nil" -> Member(f.name, "null", FALSE, 0)
                      [] v[f.name].type = "bool" -> Member(f.name, "bool", v[f.name].b, 0)
                      [] v[f.name].type = "string" -> Member(f.name, "str", FALSE, 0)
                      [] OTHER -> Member(f.name, "num", FALSE, v[f.name].n)
    IN  IF \E i \in 1..Len(fs) : fs[i].kind = "chan"
        THEN [data |-> NoPayload,
              err |-> Err("encode", "json: unsupported type: %s", "", "", 0)]
        ELSE [data |-> Payload(TRUE, [i \in 1..Len(fs) |-> enc(fs[i])]),
              err |-> NoErr]

\* one member decoded into obj.  The member's field is the exported field
\* of its name or, when there is none, the first exported field whose name
\* equals it with the case of the letters ignored.  The member sets its
\* field when its type fits and is a type error when it does not; a field
\* of interface type takes any value, a number as a float64; null sets such
\* a field to nil and leaves any other alone.  A member with no field, one
\* named as an unexported field included, is skipped
DecodeMember(m, obj) ==
    LET \* a name in lower case, for the names of the model
        fold(s) ==
            CASE s \in {"InsecureSkipVerify", "insecureskipverify"} -> "insecureskipverify"
              [] s \in {"Timeout", "timeout", "TIMEOUT"} -> "timeout"
              [] s \in {"Extra", "extra"} -> "extra"
              [] s \in {"Done", "done"} -> "done"
              [] OTHER -> s
        named(fs, f) == f.exported /\ f.name = m.name
        \* the fields of the type that m may set, the first being its field
        match(fs) ==
            SelectSeq(fs, LAMBDA f :
                              \/ named(fs, f)
                              \/ /\ f.exported
                                 /\ fold(f.name) = fold(m.name)
                                 /\ \A i \in 1..Len(fs) : ~named(fs, fs[i]))
        set(f, x) == [ok |-> TRUE, obj |-> [obj EXCEPT ![f.name] = x]]
        skip == [ok |-> TRUE, obj |-> obj]
        fail == [ok |-> FALSE, obj |-> obj]
        decode(fs) ==
            IF fs = <<>> THEN skip
            ELSE CASE fs[1].kind = "iface" ->
                        set(fs[1],
                            CASE m.t = "null" -> NilDyn
                              [] m.t = "bool" -> [type |-> "bool", b |-> m.b, n |-> 0]
                              [] m.t = "num" -> [type |-> "float64", b |-> FALSE, n |-> m.n]
                              [] OTHER -> [type |-> "string", b |-> FALSE, n |-> 0])
                   [] m.t = "null" -> skip
                   [] fs[1].kind = "bool" -> IF m.t = "bool" THEN set(fs[1], m.b) ELSE fail
                   [] fs[1].kind = "num" -> IF m.t = "num" THEN set(fs[1], m.n) ELSE fail
                   [] OTHER -> fail
    IN  decode(match(Fields(obj)))

\* the members decoded in order, each into the object its predecessor left
RECURSIVE DecodeMembers(_, _, _)
DecodeMembers(members, obj, ok) ==
    IF members = <<>> THEN [ok |-> ok, obj |-> obj]
    ELSE LET rest(d) == DecodeMembers(Tail(members), d.obj, ok /\ d.ok)
         IN  rest(DecodeMember(Head(members), obj))

\* json.Unmarshal(data, target): text that is not JSON is a syntax error and
\* leaves the target alone; a type mismatch is reported after the remaining
\* members were decoded
Unmarshal(data, target) ==
    IF ~data.ok
    THEN [obj |-> target, err |-> Err("decode", "invalid character", "", "", 0)]
    ELSE LET d == DecodeMembers(data.members, target, TRUE)
         IN  [obj |-> d.obj,
              err |-> IF d.ok THEN NoErr
                      ELSE Err("decode", "json: cannot unmarshal", "", "", 0)]

(***************************************************************************)
(* types.go: the item I, the collection IL and their typed conversion.     *)
(***************************************************************************)
Item(key, type, value, updated) ==
    [key |-> key, type |-> type, value |-> value, updated |-> updated]

NoItem == Item(<<>>, "", NoPayload, [day |-> 0, ms |-> 0])

\* a plausible slip: the value is decoded into a copy of the prototype, and
\* the prototype is returned as it was given
ITypedCopy(i, prototype) ==
    LET u == Unmarshal(i.value, prototype)
    IN  [obj |-> prototype, err |-> u.err]

\* func (i *I) Typed(item any) (result any, err error)
ITyped(i, prototype) ==
    LET u == Unmarshal(i.value, prototype)
    IN  [obj |-> u.obj, err |-> u.err]

\* func convert(i I, factory func() any) (any, error)
Convert(i, factory) ==
    LET u == Unmarshal(i.value, factory)
    IN  [obj |-> u.obj, err |-> u.err]

\* the loop of IL.Typed over the items left, ii the slice built so far
RECURSIVE TypedLoop(_, _, _)
TypedLoop(items, factory, ii) ==
    IF items = <<>> THEN [list |-> ii, err |-> NoErr]
    ELSE LET c == Convert(Head(items), factory)
         IN  IF c.err # NoErr
             THEN [list |-> <<>>, err |-> c.err]
             ELSE TypedLoop(Tail(items), factory, Append(ii, c.obj))

\* a plausible slip: the items converted so far are returned with the error
RECURSIVE TypedLoopPartial(_, _, _)
TypedLoopPartial(items, factory, ii) ==
    IF items = <<>> THEN [list |-> ii, err |-> NoErr]
    ELSE LET c == Convert(Head(items), factory)
         IN  IF c.err # NoErr
             THEN [list |-> ii, err |-> c.err]
             ELSE TypedLoopPartial(Tail(items), factory, Append(ii, c.obj))

ILTypedPartial(items, factory) == TypedLoopPartial(items, factory, <<>>)

\* func (items IL) Typed(factory func() any) ([]any, error)
ILTyped(items, factory) == TypedLoop(items, factory, <<>>)

(***************************************************************************)
(* The client, its requests and the responses it reads.                    *)
(***************************************************************************)
\* var UserAgent = fmt.Sprintf("SW-SOURCE-CLIENT-%s", Version)
UserAgent == "SW-SOURCE-CLIENT-<Version>"

\* []byte(s): the bytes of a string
Bytes(s) == [i \in 1..Len(s) |-> Ascii(s[i])]

\* the alphabet of base64.StdEncoding
Base64Alphabet ==
    <<"A", "B", "C", "D", "E", "F", "G", "H", "I", "J", "K", "L", "M",
      "N", "O", "P", "Q", "R", "S", "T", "U", "V", "W", "X", "Y", "Z",
      "a", "b", "c", "d", "e", "f", "g", "h", "i", "j", "k", "l", "m",
      "n", "o", "p", "q", "r", "s", "t", "u", "v", "w", "x", "y", "z",
      "0", "1", "2", "3", "4", "5", "6", "7", "8", "9", "+", "/">>

\* the k-th (1..4) base64 digit of the 24 bits n
Sextet(n, k) == Base64Alphabet[((n \div (64 ^ (4 - k))) % 64) + 1]

\* a plausible slip: base64.RawStdEncoding, which leaves the padding out
RECURSIVE EncodeToStringRaw(_)
EncodeToStringRaw(src) ==
    IF src = <<>> THEN <<>>
    ELSE IF Len(src) = 1
    THEN LET n == src[1] * 65536
         IN  <<Sextet(n, 1), Sextet(n, 2)>>
    ELSE IF Len(src) = 2
    THEN LET n == src[1] * 65536 + src[2] * 256
         IN  <<Sextet(n, 1), Sextet(n, 2), Sextet(n, 3)>>
    ELSE LET n == src[1] * 65536 + src[2] * 256 + src[3]
         IN  <<Sextet(n, 1), Sextet(n, 2), Sextet(n, 3), Sextet(n, 4)>>
             \o EncodeToStringRaw(SubSeq(src, 4, Len(src)))

\* base64.StdEncoding.EncodeToString(src): three bytes to four digits, the
\* last group padded with '='
RECURSIVE EncodeToString(_)
EncodeToString(src) ==
    IF src = <<>> THEN <<>>
    ELSE IF Len(src) = 1
    THEN LET n == src[1] * 65536
         IN  <<Sextet(n, 1), Sextet(n, 2), "=", "=">>
    ELSE IF Len(src) = 2
    THEN LET n == src[1] * 65536 + src[2] * 256
         IN  <<Sextet(n, 1), Sextet(n, 2), Sextet(n, 3), "=">>
    ELSE LET n == src[1] * 65536 + src[2] * 256 + src[3]
         IN  <<Sextet(n, 1), Sextet(n, 2), Sextet(n, 3), Sextet(n, 4)>>
             \o EncodeToString(SubSeq(src, 4, Len(src)))

BasicTokenRaw(user, pwd) ==
    <<"B", "a", "s", "i", "c", " ">> \o EncodeToStringRaw(Bytes(user \o <<":">> \o pwd))

\* func basicToken(user string, pwd string) string
BasicToken(user, pwd) ==
    <<"B", "a", "s", "i", "c", " ">> \o EncodeToString(Bytes(user \o <<":">> \o pwd))

\* a plausible slip: the comparison the error message words, "greater than"
ValidateStrict(o) ==
    IF o.Timeout <= MinTimeout
    THEN Err("validation", "timeout must be greater than 30 secs", "", "", 0)
    ELSE NoErr

\* func (o ClientOptions) Validate() error, durations in whole seconds
Validate(o) ==
    IF o.Timeout < MinTimeout
    THEN Err("validation", "timeout must be greater than 30 secs", "", "", 0)
    ELSE NoErr

\* func defaultOptions() *ClientOptions
DefaultOptions ==
    [isNil |-> FALSE, InsecureSkipVerify |-> TRUE, Timeout |-> DefaultTimeout]

NilOptions == [isNil |-> TRUE, InsecureSkipVerify |-> FALSE, Timeout |-> 0]

\* func New(host, user, pwd string, opts *ClientOptions) *Client
New(host, user, pwd, opts) ==
    LET o == IF opts.isNil THEN DefaultOptions ELSE opts
    IN  [host |-> host,
         token |-> BasicToken(user, pwd),
         retryMax |-> RetryMax,
         insecure |-> o.InsecureSkipVerify,
         timeout |-> o.Timeout]

\* a plausible slip: the client keeps the arguments it formats in a field of
\* its own, which a call in flight on another thread has overwritten
UrlShared(c, format, args) ==
    [host |-> c.host, format |-> format,
     args |-> IF peer.pc = "inflight" THEN peer.req.url.args ELSE args]

\* func (c *Client) url(format string, args ...any) string: the host, the
\* format and the arguments formatted into it, each a text
Url(c, format, args) == [host |-> c.host, format |-> format, args |-> args]

NoUrl == [host |-> "", format |-> "", args |-> <<>>]

\* retryablehttp.NewRequest followed by the two Header.Set calls every
\* operation makes
Request(c, method, url, body) ==
    [method |-> method, url |-> url, body |-> body,
     auth |-> c.token, agent |-> UserAgent, sourceType |-> ""]

NoReq ==
    [method |-> "", url |-> NoUrl, body |-> NoPayload,
     auth |-> <<>>, agent |-> "", sourceType |-> ""]

\* a response body: an encoded item, an encoded collection, text, or a
\* stream that breaks while it is read
Body(kind, item, list, text) ==
    [kind |-> kind, item |-> item, list |-> list, text |-> text]

TextBody(text) == Body("text", NoItem, <<>>, text)

\* http.StatusText for the codes of the model
StatusText(code) ==
    CASE code = 200 -> "200 OK"
      [] code = 304 -> "304 Not Modified"
      [] code = 400 -> "400 Bad Request"
      [] code = 404 -> "404 Not Found"
      [] code = 429 -> "429 Too Many Requests"
      [] code = 500 -> "500 Internal Server Error"
      [] code = 501 -> "501 Not Implemented"
      [] code = 503 -> "503 Service Unavailable"

Response(code, body) == [code |-> code, status |-> StatusText(code), body |-> body]

NoResp == [code |-> 0, status |-> "", body |-> TextBody("")]

\* what c.Do returns: (resp, nil) or (nil, err)
DoResult(resp, err) == [resp |-> resp, err |-> err]

(***************************************************************************)
(* What an operation returns: a value and an error.  A value is nil, an    *)
(* interface holding a nil *I, an item, a decoded object or a list.        *)
(***************************************************************************)
Val(tag, item, obj, list) == [tag |-> tag, item |-> item, obj |-> obj, list |-> list]

ValNil == Val("nil", NoItem, ZeroObj, <<>>)

ValTypedNil == Val("typednil", NoItem, ZeroObj, <<>>)

ValItem(i) == Val("item", i, ZeroObj, <<>>)

ValObj(o) == Val("obj", NoItem, o, <<>>)

ValList(l) == Val("list", NoItem, ZeroObj, l)

Ret(val, err) == [val |-> val, err |-> err]

\* the error of retryablehttp.NewRequest: http.NewRequest parses the text
\* c.url formatted, in which nothing is escaped, as url.Parse does.  The
\* text ends at its first "#", what follows being the fragment; a control
\* character before the fragment is an error.  The path ends at the first
\* "?", what follows being the query, which is not parsed; a "%" of the
\* path or of the fragment that is not followed by two hexadecimal digits
\* is an error.  The text is spelled character by character; the "/" put
\* before each argument stands for the part of the format before it, which
\* begins with one and holds none of these characters
NewRequestErr(url) ==
    LET hex == {"0", "1", "2", "3", "4", "5", "6", "7", "8", "9",
                "a", "b", "c", "d", "e", "f", "A", "B", "C", "D", "E", "F"}
        ctl == {"\n", "\t", "\r"}
        \* the characters of a text of the model
        chars(p) ==
            CASE p = "" -> <<>>
              [] p = "AAA" -> <<"A", "A", "A">>
              [] p = "status" -> <<"s", "t", "a", "t", "u", "s">>
              [] p = "dev" -> <<"d", "e", "v">>
              [] p = "%zz" -> <<"%", "z", "z">>
              [] OTHER -> <<p>>
        RECURSIVE spell(_)
        spell(a) == IF a = <<>> THEN <<>> ELSE chars(Head(a)) \o spell(Tail(a))
        RECURSIVE text(_)
        text(args) ==
            IF args = <<>> THEN <<>>
            ELSE <<"/">> \o spell(Head(args)) \o text(Tail(args))
        before(t, c) == IF Contains(t, c) THEN SubSeq(t, 1, Index(t, c) - 1) ELSE t
        after(t, c) == IF Contains(t, c) THEN SubSeq(t, Index(t, c) + 1, Len(t)) ELSE <<>>
        bad(t) == \E i \in 1..Len(t) :
                      /\ t[i] = "%"
                      /\ ~(/\ i + 2 <= Len(t)
                           /\ t[i + 1] \in hex
                           /\ t[i + 2] \in hex)
        \* url.Parse of the text u before the fragment frag
        parse(u, frag) ==
            IF \E i \in 1..Len(u) : u[i] \in ctl
            THEN Err("request", "net/url: invalid control character in URL", "", "", 0)
            ELSE IF bad(before(u, Wildcard)) \/ bad(frag)
            THEN Err("request", "parse %q: invalid URL escape %q", "", "", 0)
            ELSE NoErr
        cut(whole) == parse(before(whole, "#"), after(whole, "#"))
    IN  cut(text(url.args))

\* the outcome of an operation's code before c.Do: an error returned at
\* once, or the request to send
Fail(err) == [err |-> err, req |-> NoReq]

\* the end of that code: the error of NewRequest returned, or the request
\* it built handed to c.Do
Send(request) ==
    LET end(err) == IF err # NoErr THEN Fail(err) ELSE [err |-> NoErr, req |-> request]
    IN  end(NewRequestErr(request.url))

\* json.Unmarshal(body, item) for an *I, after io.ReadAll
DecodeItem(body) ==
    IF body.kind = "broken"
    THEN Ret(ValNil, Err("read", "cannot read response body: %s", "", "", 0))
    ELSE IF body.kind = "item" THEN Ret(ValItem(body.item), NoErr)
    ELSE Ret(ValNil, Err("decode", "cannot unmarshal response body: %s", "", "", 0))

\* json.Unmarshal(body, &items) for an IL, after io.ReadAll
DecodeList(body) ==
    IF body.kind = "broken"
    THEN Ret(ValNil, Err("read", "cannot read response body: %s", "", "", 0))
    ELSE IF body.kind = "list" THEN Ret(ValList(body.list), NoErr)
    ELSE Ret(ValNil, Err("decode", "cannot unmarshal response body: %s", "", "", 0))

(***************************************************************************)
(* The operations.  XStart is the code of X up to c.Do (an error returned  *)
(* before any request, or the request built); XFinish is the code after    *)
(* c.Do returned do = (resp, err).                                         *)
(***************************************************************************)

\* a plausible slip: strings.Replace with n = -1 replaces every wildcard
RECURSIVE ReplaceAll(_, _, _)
ReplaceAll(s, c, new) ==
    IF s = <<>> THEN <<>>
    ELSE (IF Head(s) = c THEN new ELSE <<Head(s)>>) \o ReplaceAll(Tail(s), c, new)

ResolveKeyAll(key, t) == ReplaceAll(key, Wildcard, FormatNow(t))

\* the key Save stores under: the first wildcard replaced by the timestamp
ResolveKey(key, t) ==
    IF Contains(key, Wildcard) THEN ReplaceFirst(key, Wildcard, FormatNow(t)) ELSE key


\* a plausible slip: Save sends the item without calling item.Validate()
SaveStartNoValidate(c, key, itemType, item, t) ==
    IF item.isPtr
    THEN Fail(UsageErr("item argument passed to Save() must not be a pointer"))
    ELSE IF itemType = ""
    THEN Fail(UsageErr("item type is required to validate the item data"))
    ELSE IF Marshal(item.obj).err # NoErr THEN Fail(Marshal(item.obj).err)
    ELSE Send([Request(c, "PUT", Url(c, "/item/%s", <<ResolveKey(key, t)>>),
                       Marshal(item.obj).data)
               EXCEPT !.sourceType = itemType])

\* a plausible slip: Save does not require an item type
SaveStartNoType(c, key, itemType, item, t) ==
    IF item.verr # NoErr THEN Fail(item.verr)
    ELSE IF item.isPtr
    THEN Fail(UsageErr("item argument passed to Save() must not be a pointer"))
    ELSE IF Marshal(item.obj).err # NoErr THEN Fail(Marshal(item.obj).err)
    ELSE Send([Request(c, "PUT", Url(c, "/item/%s", <<ResolveKey(key, t)>>),
                       Marshal(item.obj).data)
               EXCEPT !.sourceType = itemType])

\* func (c *Client) Save(key, itemType string, item Valid) error
SaveStart(c, key, itemType, item, t) ==
    IF item.verr # NoErr THEN Fail(item.verr)
    ELSE IF item.isPtr
    THEN Fail(UsageErr("item argument passed to Save() must not be a pointer"))
    ELSE IF itemType = ""
    THEN Fail(UsageErr("item type is required to validate the item data"))
    ELSE IF Marshal(item.obj).err # NoErr THEN Fail(Marshal(item.obj).err)
    ELSE Send([Request(c, "PUT", Url(c, "/item/%s", <<ResolveKey(key, t)>>),
                       Marshal(item.obj).data)
               EXCEPT !.sourceType = itemType])

SaveFinish(do) ==
    IF do.err # NoErr THEN Ret(ValNil, do.err)
    ELSE IF do.resp.code > MaxSuccess
    THEN Ret(ValNil,
             Err("remote", "cannot save item, source server responded with: %s, %s",
                 do.resp.status, do.resp.body.text, 0))
    ELSE Ret(ValNil, NoErr)

\* func (c *Client) LoadRaw(itemKey string) (*I, error)
LoadRawStart(c, itemKey) ==
    Send(Request(c, "GET", Url(c, "/item/%s", <<itemKey>>), NoPayload))

LoadRawFinish(do) ==
    IF do.err # NoErr THEN Ret(ValNil, do.err)
    ELSE IF do.resp.code > MaxSuccess
    THEN Ret(ValNil, RemoteErr("cannot get item, source server responded with: %s",
                               do.resp.status))
    ELSE DecodeItem(do.resp.body)

\* func (c *Client) Load(itemKey string, prototype any) (any, error)
LoadStart(c, itemKey, prototype) ==
    IF ~prototype.isPtr
    THEN Fail(UsageErr("prototype argument passed to Load() must be a pointer"))
    ELSE LoadRawStart(c, itemKey)

LoadFinish(prototype, do) ==
    LET i == LoadRawFinish(do)
    IN  IF i.err # NoErr THEN Ret(ValNil, i.err)
        ELSE LET r == ITyped(i.val.item, prototype.obj)
             IN  Ret(ValObj(r.obj), r.err)

\* func (c *Client) LoadItemsByTypeRaw(itemType string) (IL, error)
LoadItemsByTypeRawStart(c, itemType) ==
    Send(Request(c, "GET", Url(c, "/item/type/%s", << <<itemType>> >>), NoPayload))

LoadItemsByTypeRawFinish(itemType, do) ==
    IF do.err # NoErr THEN Ret(ValNil, do.err)
    ELSE IF do.resp.code > MaxSuccess
    THEN Ret(ValNil,
             RemoteErr("cannot get item for type '%s', source server responded with: %s",
                       do.resp.status))
    ELSE DecodeList(do.resp.body)

\* func (c *Client) LoadItemsByType(factory func() any, itemType string) ([]any, error)
LoadItemsByTypeFinish(itemType, do) ==
    LET items == LoadItemsByTypeRawFinish(itemType, do)
    IN  IF items.err # NoErr THEN Ret(ValNil, items.err)
        ELSE LET r == ILTyped(items.val.list, ZeroObj)
             IN  Ret(IF r.err # NoErr THEN ValNil ELSE ValList(r.list), r.err)

\* func (c *Client) PopOldestRaw(itemType string) (*I, error)
PopOldestRawStart(c, itemType) ==
    Send(Request(c, "DELETE", Url(c, "/item/pop/oldest/%s", << <<itemType>> >>),
                 NoPayload))

PopOldestRawFinish(do) ==
    IF do.err # NoErr THEN Ret(ValNil, do.err)
    ELSE IF do.resp.code = StatusNotFound THEN Ret(ValNil, NoErr)
    ELSE IF do.resp.code > MaxSuccess
    THEN Ret(ValNil, RemoteErr("cannot get item, source server responded with: %s",
                               do.resp.status))
    ELSE DecodeItem(do.resp.body)

\* func (c *Client) PopOldest(itemType string, prototype any) (any, error)
PopOldestStart(c, itemType, prototype) ==
    IF ~prototype.isPtr
    THEN Fail(UsageErr("prototype argument passed to PopOldest() must be a pointer"))
    ELSE PopOldestRawStart(c, itemType)

PopOldestFinish(prototype, do) ==
    LET i == PopOldestRawFinish(do)
    IN  IF i.err # NoErr THEN Ret(ValNil, i.err)
        ELSE IF i.val.tag = "nil" THEN Ret(ValNil, NoErr)
        ELSE LET r == ITyped(i.val.item, prototype.obj)
             IN  Ret(ValObj(r.obj), r.err)

\* func (c *Client) PopNewestRaw(itemType string) (*I, error)
PopNewestRawStart(c, itemType) ==
    Send(Request(c, "DELETE", Url(c, "/item/pop/newest/%s", << <<itemType>> >>),
                 NoPayload))

PopNewestRawFinish(do) ==
    IF do.err # NoErr THEN Ret(ValNil, do.err)
    ELSE IF do.resp.code = StatusNotFound THEN Ret(ValNil, NoErr)
    ELSE IF do.resp.code > MaxSuccess
    THEN Ret(ValNil, RemoteErr("cannot get item, source server responded with: %s",
                               do.resp.status))
    ELSE DecodeItem(do.resp.body)

\* func (c *Client) PopNewest(itemType string, prototype any) (any, error):
\* it calls c.PopOldestRaw, and returns its nil *I as the result when the
\* store had nothing
PopNewestStart(c, itemType, prototype) ==
    IF ~prototype.isPtr
    THEN Fail(UsageErr("prototype argument passed to PopNewest() must be a pointer"))
    ELSE PopOldestRawStart(c, itemType)

PopNewestFinish(prototype, do) ==
    LET i == PopOldestRawFinish(do)
    IN  IF i.err # NoErr THEN Ret(ValNil, i.err)
        ELSE IF i.val.tag = "nil" THEN Ret(ValTypedNil, NoErr)
        ELSE LET r == ITyped(i.val.item, prototype.obj)
             IN  Ret(ValObj(r.obj), r.err)

\* a plausible slip: the segment is always formatted as name|value
TagStartJoined(c, itemKey, tagName, tagValue) ==
    IF tagName = "" THEN Fail(UsageErr("a tag name is required"))
    ELSE Send(Request(c, "PUT",
                      Url(c, "/item/%s/tag/%s", <<itemKey, <<tagName, "|", tagValue>> >>),
                      NoPayload))

\* func (c *Client) Tag(itemKey, tagName, tagValue string) error
TagStart(c, itemKey, tagName, tagValue) ==
    IF tagName = "" THEN Fail(UsageErr("a tag name is required"))
    ELSE LET tag == IF tagValue # "" THEN <<tagName, "|", tagValue>> ELSE <<tagName>>
         IN  Send(Request(c, "PUT", Url(c, "/item/%s/tag/%s", <<itemKey, tag>>),
                          NoPayload))

TagFinish(do) ==
    IF do.err # NoErr THEN Ret(ValNil, do.err)
    ELSE IF do.resp.code > MaxSuccess
    THEN Ret(ValNil, RemoteErr("cannot tag item, source server responded with: %s",
                               do.resp.status))
    ELSE Ret(ValNil, NoErr)

\* func (c *Client) Untag(itemKey, tagName string) error
UntagStart(c, itemKey, tagName) ==
    IF tagName = "" THEN Fail(UsageErr("a tag name is required"))
    ELSE Send(Request(c, "DELETE", Url(c, "/item/%s/tag/%s", <<itemKey, <<tagName>> >>),
                      NoPayload))

UntagFinish(do) ==
    IF do.err # NoErr THEN Ret(ValNil, do.err)
    ELSE IF do.resp.code > MaxSuccess
    THEN Ret(ValNil, RemoteErr("cannot tag item, source server responded with: %s",
                               do.resp.status))
    ELSE Ret(ValNil, NoErr)

\* func (c *Client) Delete(key string) error
DeleteStart(c, key) ==
    Send(Request(c, "DELETE", Url(c, "/item/%s", <<key>>), NoPayload))

DeleteFinish(do) ==
    IF do.err # NoErr THEN Ret(ValNil, do.err)
    ELSE IF do.resp.code > MaxSuccess
    THEN Ret(ValNil, RemoteErr("cannot delete item, source server responded with: %s",
                               do.resp.status))
    ELSE Ret(ValNil, NoErr)

\* json.Marshal(typeInfo) of the TT SetType builds: key (omitted when
\* empty), schema and proto, the last two as base64 strings
MarshalTT(key) ==
    Payload(TRUE,
            (IF key = "" THEN <<>> ELSE <<Member("key", "str", FALSE, 0)>>)
            \o <<Member("schema", "str", FALSE, 0), Member("proto", "str", FALSE, 0)>>)

\* jsonschema.Reflect(obj) and json.Marshal(schemaObj) as SetType sees them:
\* whether the first panics and, when it does not, the error of the second.
\* The code of the library is not part of the source.  Of a struct of
\* boolean, integer and interface fields it returns a schema that encodes.
\* A channel is a type no JSON schema describes: of a struct with such a
\* field it panics, returns a schema that does not encode, or returns one
\* that does, and the model leaves the choice open
Reflect(obj) ==
    IF \E i \in 1..Len(Fields(obj)) :
           Fields(obj)[i].exported /\ Fields(obj)[i].kind = "chan"
    THEN {[panic |-> TRUE, err |-> NoErr],
          [panic |-> FALSE, err |-> Err("encode", "json: error calling MarshalJSON for type %s", "", "", 0)],
          [panic |-> FALSE, err |-> NoErr]}
    ELSE {[panic |-> FALSE, err |-> NoErr]}

\* func (c *Client) SetType(key string, obj any) error, with schema the
\* outcome of jsonschema.Reflect(obj) and json.Marshal(schemaObj).  A panic
\* is handed on as an error of kind "panic", which is no return value
SetTypeStart(c, key, obj, schema) ==
    IF schema.panic THEN Fail(Err("panic", "unsupported type", "", "", 0))
    ELSE IF schema.err # NoErr THEN Fail(schema.err)
    ELSE IF Marshal(obj).err # NoErr THEN Fail(Marshal(obj).err)
    ELSE Send(Request(c, "PUT", Url(c, "/type", <<>>), MarshalTT(key)))

SetTypeFinish(do) ==
    IF do.err # NoErr THEN Ret(ValNil, do.err)
    ELSE IF do.resp.code > MaxSuccess
    THEN Ret(ValNil, RemoteErr("cannot set type, source server responded with: %s",
                               do.resp.status))
    ELSE Ret(ValNil, NoErr)

\* strings.Join(elems, sep)
RECURSIVE Join(_, _)
Join(elems, sep) ==
    IF elems = <<>> THEN <<>>
    ELSE IF Len(elems) = 1 THEN elems
    ELSE <<Head(elems), sep>> \o Join(Tail(elems), sep)

\* func (c *Client) LoadItemsByTagRaw(tags ...string) (IL, error)
LoadItemsByTagRawStart(c, tags) ==
    Send(Request(c, "GET", Url(c, "/item/tag/%s", <<Join(tags, "|")>>), NoPayload))

LoadItemsByTagRawFinish(do) ==
    IF do.err # NoErr THEN Ret(ValNil, do.err)
    ELSE IF do.resp.code > MaxSuccess
    THEN Ret(ValNil,
             RemoteErr("cannot get tagged items, source server responded with: %s",
                       do.resp.status))
    ELSE DecodeList(do.resp.body)

\* func (c *Client) LoadChildrenRaw(itemKey string) (IL, error)
LoadChildrenRawStart(c, itemKey) ==
    Send(Request(c, "GET", Url(c, "/item/%s/children", <<itemKey>>), NoPayload))

LoadChildrenRawFinish(do) ==
    IF do.err # NoErr THEN Ret(ValNil, do.err)
    ELSE IF do.resp.code > MaxSuccess
    THEN Ret(ValNil,
             RemoteErr("cannot get children for item, source server responded with: %s",
                       do.resp.status))
    ELSE DecodeList(do.resp.body)

\* func (c *Client) LoadParentsRaw(itemKey string) (IL, error)
LoadParentsRawStart(c, itemKey) ==
    Send(Request(c, "GET", Url(c, "/item/%s/parents", <<itemKey>>), NoPayload))

LoadParentsRawFinish(do) ==
    IF do.err # NoErr THEN Ret(ValNil, do.err)
    ELSE IF do.resp.code > MaxSuccess
    THEN Ret(ValNil,
             RemoteErr("cannot get parents for item, source server responded with: %s",
                       do.resp.status))
    ELSE DecodeList(do.resp.body)

\* LoadItemsByTag, LoadChildren and LoadParents: the raw collection, or its
\* error, and then items.Typed(factory)
TypedFinish(items) ==
    IF items.err # NoErr THEN Ret(ValNil, items.err)
    ELSE LET r == ILTyped(items.val.list, ZeroObj)
         IN  Ret(IF r.err # NoErr THEN ValNil ELSE ValList(r.list), r.err)

\* func (c *Client) Link(fromKey, toKey string) error
LinkStart(c, fromKey, toKey) ==
    Send(Request(c, "PUT", Url(c, "/link/%s/to/%s", <<fromKey, toKey>>), NoPayload))

LinkFinish(do) ==
    IF do.err # NoErr THEN Ret(ValNil, do.err)
    ELSE IF do.resp.code > MaxSuccess
    THEN Ret(ValNil, RemoteErr("cannot link items, source server responded with: %s",
                               do.resp.status))
    ELSE Ret(ValNil, NoErr)

\* func (c *Client) Unlink(fromKey, toKey string) error
UnlinkStart(c, fromKey, toKey) ==
    Send(Request(c, "DELETE", Url(c, "/link/%s/to/%s", <<fromKey, toKey>>), NoPayload))

UnlinkFinish(do) ==
    IF do.err # NoErr THEN Ret(ValNil, do.err)
    ELSE IF do.resp.code > MaxSuccess
    THEN Ret(ValNil, RemoteErr("cannot unlink items, source server responded with: %s",
                               do.resp.status))
    ELSE Ret(ValNil, NoErr)

\* the code after c.Do of the operation being called
Finish(cl, do) ==
    CASE cl.op = "Save" -> SaveFinish(do)
      [] cl.op = "LoadRaw" -> LoadRawFinish(do)
      [] cl.op = "Load" -> LoadFinish(cl.prototype, do)
      [] cl.op = "LoadItemsByTypeRaw" -> LoadItemsByTypeRawFinish(cl.itemType, do)
      [] cl.op = "LoadItemsByType" -> LoadItemsByTypeFinish(cl.itemType, do)
      [] cl.op = "PopOldestRaw" -> PopOldestRawFinish(do)
      [] cl.op = "PopOldest" -> PopOldestFinish(cl.prototype, do)
      [] cl.op = "PopNewestRaw" -> PopNewestRawFinish(do)
      [] cl.op = "PopNewest" -> PopNewestFinish(cl.prototype, do)
      [] cl.op = "Tag" -> TagFinish(do)
      [] cl.op = "Untag" -> UntagFinish(do)
      [] cl.op = "Delete" -> DeleteFinish(do)
      [] cl.op = "SetType" -> SetTypeFinish(do)
      [] cl.op = "LoadItemsByTagRaw" -> LoadItemsByTagRawFinish(do)
      [] cl.op = "LoadItemsByTag" -> TypedFinish(LoadItemsByTagRawFinish(do))
      [] cl.op = "LoadChildrenRaw" -> LoadChildrenRawFinish(do)
      [] cl.op = "LoadChildren" -> TypedFinish(LoadChildrenRawFinish(do))
      [] cl.op = "LoadParentsRaw" -> LoadParentsRawFinish(do)
      [] cl.op = "LoadParents" -> TypedFinish(LoadParentsRawFinish(do))
      [] cl.op = "Link" -> LinkFinish(do)
      [] cl.op = "Unlink" -> UnlinkFinish(do)

(***************************************************************************)
(* The retrying executor: c.Do of the retryablehttp.Client that New        *)
(* configures with RetryMax = 20, the default retry policy and backoff,    *)
(* and an http.Client whose Timeout is opts.Timeout.                       *)
(*                                                                         *)
(* An outcome is what one attempt ends with: a response, or a transport    *)
(* error (retryable, or one the policy never retries, such as a            *)
(* certificate failure), after dur seconds.  retryAfter is the response's  *)
(* Retry-After header in seconds, -1 when absent.                          *)
(***************************************************************************)
Outcome(kind, resp, retryable, timedOut, retryAfter, dur) ==
    [kind |-> kind, resp |-> resp, retryable |-> retryable, timedOut |-> timedOut,
     retryAfter |-> retryAfter, dur |-> dur]

RespOutcome(resp, retryAfter, dur) == Outcome("response", resp, FALSE, FALSE, retryAfter, dur)

ErrOutcome(retryable, dur) == Outcome("error", NoResp, retryable, FALSE, -1, dur)

TimeoutOutcome(dur) == Outcome("error", NoResp, TRUE, TRUE, -1, dur)

NoOutcome == Outcome("none", NoResp, FALSE, FALSE, -1, 0)

\* a plausible slip: the timeout is not set on the http.Client
HTTPDoNoTimeout(c, raw) == raw

\* c.HTTPClient.Do with http.Client{Timeout: opts.Timeout}: an attempt that
\* would take the timeout or longer is cut at the timeout with an error;
\* a zero Timeout means no timeout
HTTPDo(c, raw) ==
    IF c.timeout > 0 /\ raw.dur >= c.timeout THEN TimeoutOutcome(c.timeout) ELSE raw

\* retryablehttp.DefaultRetryPolicy
CheckRetry(out) ==
    IF out.kind = "error" THEN out.retryable
    ELSE \/ out.resp.code = 429
         \/ out.resp.code = 0
         \/ out.resp.code >= 500 /\ out.resp.code # 501

RECURSIVE Pow2(_)
Pow2(n) == IF n = 0 THEN 1 ELSE 2 * Pow2(n - 1)

\* retryablehttp.DefaultBackoff(min, max, attemptNum, resp)
Backoff(min, max, attemptNum, out) ==
    IF out.kind = "response" /\ out.resp.code \in {429, 503} /\ out.retryAfter >= 0
    THEN out.retryAfter
    ELSE IF max < Pow2(attemptNum) * min THEN max ELSE Pow2(attemptNum) * min

\* the error c.Do returns when it stops without a response to hand back
GiveUp(out, attempts) ==
    IF out.kind = "error"
    THEN Err("transport", "%s %s giving up after %d attempt(s): %w", "",
             IF out.timedOut THEN "Client.Timeout exceeded" ELSE "transport error",
             attempts)
    ELSE Err("transport", "%s %s giving up after %d attempt(s)", "", "", attempts)

\* a plausible slip: the loop never checks the retries that remain
DoStepUnbounded(c, i, out) ==
    IF ~CheckRetry(out)
    THEN [done |-> TRUE, wait |-> 0,
          do |-> IF out.kind = "response" THEN DoResult(out.resp, NoErr)
                 ELSE DoResult(NoResp, GiveUp(out, i + 1))]
    ELSE [done |-> FALSE, wait |-> Backoff(RetryWaitMin, RetryWaitMax, i, out),
          do |-> DoResult(NoResp, NoErr)]

\* one turn of the loop of retryablehttp's Client.Do, after attempt i + 1
\* ended with out: hand the response back, give up, or sleep and retry
DoStep(c, i, out) ==
    IF ~CheckRetry(out)
    THEN [done |-> TRUE, wait |-> 0,
          do |-> IF out.kind = "response" THEN DoResult(out.resp, NoErr)
                 ELSE DoResult(NoResp, GiveUp(out, i + 1))]
    ELSE IF c.retryMax - i <= 0
    THEN [done |-> TRUE, wait |-> 0, do |-> DoResult(NoResp, GiveUp(out, i + 1))]
    ELSE [done |-> FALSE, wait |-> Backoff(RetryWaitMin, RetryWaitMax, i, out),
          do |-> DoResult(NoResp, NoErr)]

(***************************************************************************)
(* The remote service, by the routes the client calls.  The store is a     *)
(* sequence of items, oldest first.                                        *)
(***************************************************************************)
KeyPositions(st, key) == {i \in 1..Len(st) : st[i].key = key}

TypePositions(st, type) == {i \in 1..Len(st) : st[i].type = type}

RemoveAt(st, i) == SubSeq(st, 1, i - 1) \o SubSeq(st, i + 1, Len(st))

RECURSIVE OfType(_, _)
OfType(st, type) ==
    IF st = <<>> THEN <<>>
    ELSE (IF Head(st).type = type THEN <<Head(st)>> ELSE <<>>) \o OfType(Tail(st), type)

Served(resp, st) == [resp |-> resp, store |-> st]

\* PUT /item/{key}: the item is stored under the key, replacing one there
ServePut(st, r, t) ==
    LET it == Item(r.url.args[1], r.sourceType, r.body, t)
        at == KeyPositions(st, it.key)
    IN  Served(Response(200, TextBody("")),
               IF at = {} THEN Append(st, it)
               ELSE [st EXCEPT ![CHOOSE i \in at : TRUE] = it])

\* GET /item/{key}
ServeGet(st, r) ==
    LET at == KeyPositions(st, r.url.args[1])
    IN  IF at = {} THEN Served(Response(404, TextBody("")), st)
        ELSE Served(Response(200, Body("item", st[CHOOSE i \in at : TRUE], <<>>, "")), st)

\* GET /item/type/{itemType}
ServeByType(st, r) ==
    Served(Response(200, Body("list", NoItem, OfType(st, r.url.args[1][1]), "")), st)

\* DELETE /item/pop/oldest/{itemType} and /item/pop/newest/{itemType}
ServePop(st, r, newest) ==
    LET at == TypePositions(st, r.url.args[1][1])
    IN  IF at = {} THEN Served(Response(404, TextBody("")), st)
        ELSE LET i == IF newest THEN CHOOSE k \in at : \A j \in at : j <= k
                      ELSE CHOOSE k \in at : \A j \in at : k <= j
             IN  Served(Response(200, Body("item", st[i], <<>>, "")), RemoveAt(st, i))

\* DELETE /item/{key}
ServeDelete(st, r) ==
    LET at == KeyPositions(st, r.url.args[1])
    IN  IF at = {} THEN Served(Response(404, TextBody("")), st)
        ELSE Served(Response(200, TextBody("")), RemoveAt(st, CHOOSE i \in at : TRUE))

\* PUT and DELETE /item/{key}/tag/{tag}: tags are not kept in the model
ServeTag(st, r) ==
    IF KeyPositions(st, r.url.args[1]) = {}
    THEN Served(Response(404, TextBody("")), st)
    ELSE Served(Response(200, TextBody("")), st)

\* PUT /type: types are not kept in the model
ServeType(st, r) == Served(Response(200, TextBody("")), st)

\* GET /item/tag/{tags}: tags are not kept, no item carries any
ServeByTag(st, r) == Served(Response(200, Body("list", NoItem, <<>>, "")), st)

\* GET /item/{key}/children and /item/{key}/parents: links are not kept, an
\* item that exists has none
ServeLinked(st, r) ==
    IF KeyPositions(st, r.url.args[1]) = {}
    THEN Served(Response(404, TextBody("")), st)
    ELSE Served(Response(200, Body("list", NoItem, <<>>, "")), st)

\* PUT and DELETE /link/{from}/to/{to}
ServeLink(st, r) ==
    IF KeyPositions(st, r.url.args[1]) = {} \/ KeyPositions(st, r.url.args[2]) = {}
    THEN Served(Response(404, TextBody("")), st)
    ELSE Served(Response(200, TextBody("")), st)

\* the service's answer to request r at time t, and the store after it
Serve(st, r, t) ==
    CASE r.url.format = "/item/%s" /\ r.method = "PUT" -> ServePut(st, r, t)
      [] r.url.format = "/item/%s" /\ r.method = "GET" -> ServeGet(st, r)
      [] r.url.format = "/item/%s" /\ r.method = "DELETE" -> ServeDelete(st, r)
      [] r.url.format = "/item/type/%s" -> ServeByType(st, r)
      [] r.url.format = "/item/pop/oldest/%s" -> ServePop(st, r, FALSE)
      [] r.url.format = "/item/pop/newest/%s" -> ServePop(st, r, TRUE)
      [] r.url.format = "/item/%s/tag/%s" -> ServeTag(st, r)
      [] r.url.format = "/type" -> ServeType(st, r)
      [] r.url.format = "/item/tag/%s" -> ServeByTag(st, r)
      [] r.url.format \in {"/item/%s/children", "/item/%s/parents"} -> ServeLinked(st, r)
      [] r.url.format = "/link/%s/to/%s" -> ServeLink(st, r)

(***************************************************************************)
(* The caller.  One call is in progress at a time: an operation's action   *)
(* runs its code up to c.Do; Attempt is one attempt of the executor, and   *)
(* the attempt that ends c.Do also runs the rest of the operation;         *)
(* Return hands the result to the caller.                                  *)
(***************************************************************************)
Proto(isPtr) == [isPtr |-> isPtr, obj |-> ZeroObj]

\* an item argument: a ClientOptions value, the one type of the repository
\* with a Validate method, or a pointer to one; verr is what item.Validate()
\* returns
ValidItem(isPtr, obj) == [isPtr |-> isPtr, verr |-> Validate(obj), obj |-> obj]

\* the item field of a call that has no item argument
NoItemArg == [isPtr |-> FALSE, verr |-> NoErr, obj |-> ZeroObj]

Call(op, key, itemType, item, tagName, tagValue, prototype) ==
    [op |-> op, key |-> key, itemType |-> itemType, item |-> item,
     tagName |-> tagName, tagValue |-> tagValue, prototype |-> prototype,
     toKey |-> <<>>, tags |-> <<>>]

NoCall == Call("", <<>>, "", NoItemArg, "", "", Proto(FALSE))

Begin(cl, start) ==
    /\ pc = "idle"
    /\ call' = cl
    /\ req' = start.req
    /\ attempt' = 0
    /\ elapsed' = 0
    /\ last' = NoOutcome
    /\ IF start.err.kind = "panic"
       THEN pc' = "panicked" /\ result' = Ret(ValNil, NoErr)
       ELSE IF start.err # NoErr
       THEN pc' = "returned" /\ result' = Ret(ValNil, start.err)
       ELSE pc' = "inflight" /\ result' = Ret(ValNil, NoErr)
    /\ UNCHANGED <<client, store, now, saved, il, typed, peer>>

SaveCall(key, itemType, item) ==
    /\ saved < MaxItems
    /\ Begin(Call("Save", key, itemType, item, "", "", Proto(FALSE)),
             SaveStart(client, key, itemType, item, now))

Save(key, itemType, item) ==
    /\ SaveCall(key, itemType, item)
    /\ UNCHANGED generated

LoadRaw(itemKey) ==
    /\ Begin(Call("LoadRaw", itemKey, "", NoItemArg, "", "", Proto(FALSE)),
             LoadRawStart(client, itemKey))
    /\ UNCHANGED generated

Load(itemKey, prototype) ==
    /\ Begin(Call("Load", itemKey, "", NoItemArg, "", "", prototype),
             LoadStart(client, itemKey, prototype))
    /\ UNCHANGED generated

LoadItemsByTypeRaw(itemType) ==
    /\ Begin(Call("LoadItemsByTypeRaw", <<>>, itemType, NoItemArg, "", "", Proto(FALSE)),
             LoadItemsByTypeRawStart(client, itemType))
    /\ UNCHANGED generated

LoadItemsByType(itemType) ==
    /\ Begin(Call("LoadItemsByType", <<>>, itemType, NoItemArg, "", "", Proto(FALSE)),
             LoadItemsByTypeRawStart(client, itemType))
    /\ UNCHANGED generated

PopOldestRaw(itemType) ==
    /\ Begin(Call("PopOldestRaw", <<>>, itemType, NoItemArg, "", "", Proto(FALSE)),
             PopOldestRawStart(client, itemType))
    /\ UNCHANGED generated

PopOldest(itemType, prototype) ==
    /\ Begin(Call("PopOldest", <<>>, itemType, NoItemArg, "", "", prototype),
             PopOldestStart(client, itemType, prototype))
    /\ UNCHANGED generated

PopNewestRaw(itemType) ==
    /\ Begin(Call("PopNewestRaw", <<>>, itemType, NoItemArg, "", "", Proto(FALSE)),
             PopNewestRawStart(client, itemType))
    /\ UNCHANGED generated

PopNewest(itemType, prototype) ==
    /\ Begin(Call("PopNewest", <<>>, itemType, NoItemArg, "", "", prototype),
             PopNewestStart(client, itemType, prototype))
    /\ UNCHANGED generated

Tag(itemKey, tagName, tagValue) ==
    /\ Begin(Call("Tag", itemKey, "", NoItemArg, tagName, tagValue, Proto(FALSE)),
             TagStart(client, itemKey, tagName, tagValue))
    /\ UNCHANGED generated

Untag(itemKey, tagName) ==
    /\ Begin(Call("Untag", itemKey, "", NoItemArg, tagName, "", Proto(FALSE)),
             UntagStart(client, itemKey, tagName))
    /\ UNCHANGED generated

Delete(key) ==
    /\ Begin(Call("Delete", key, "", NoItemArg, "", "", Proto(FALSE)),
             DeleteStart(client, key))
    /\ UNCHANGED generated

SetType(key, obj) ==
    /\ \E schema \in Reflect(obj) :
           Begin(Call("SetType", <<>>, key, [NoItemArg EXCEPT !.obj = obj], "", "", Proto(FALSE)),
                 SetTypeStart(client, key, obj, schema))
    /\ UNCHANGED generated

LoadItemsByTagRaw(tags) ==
    /\ Begin([Call("LoadItemsByTagRaw", <<>>, "", NoItemArg, "", "", Proto(FALSE))
                 EXCEPT !.tags = tags],
             LoadItemsByTagRawStart(client, tags))
    /\ UNCHANGED generated

LoadItemsByTag(tags) ==
    /\ Begin([Call("LoadItemsByTag", <<>>, "", NoItemArg, "", "", Proto(FALSE))
                 EXCEPT !.tags = tags],
             LoadItemsByTagRawStart(client, tags))
    /\ UNCHANGED generated

LoadChildrenRaw(itemKey) ==
    /\ Begin(Call("LoadChildrenRaw", itemKey, "", NoItemArg, "", "", Proto(FALSE)),
             LoadChildrenRawStart(client, itemKey))
    /\ UNCHANGED generated

LoadChildren(itemKey) ==
    /\ Begin(Call("LoadChildren", itemKey, "", NoItemArg, "", "", Proto(FALSE)),
             LoadChildrenRawStart(client, itemKey))
    /\ UNCHANGED generated

LoadParentsRaw(itemKey) ==
    /\ Begin(Call("LoadParentsRaw", itemKey, "", NoItemArg, "", "", Proto(FALSE)),
             LoadParentsRawStart(client, itemKey))
    /\ UNCHANGED generated

LoadParents(itemKey) ==
    /\ Begin(Call("LoadParents", itemKey, "", NoItemArg, "", "", Proto(FALSE)),
             LoadParentsRawStart(client, itemKey))
    /\ UNCHANGED generated

Link(fromKey, toKey) ==
    /\ Begin([Call("Link", fromKey, "", NoItemArg, "", "", Proto(FALSE))
                 EXCEPT !.toKey = toKey],
             LinkStart(client, fromKey, toKey))
    /\ UNCHANGED generated

Unlink(fromKey, toKey) ==
    /\ Begin([Call("Unlink", fromKey, "", NoItemArg, "", "", Proto(FALSE))
                 EXCEPT !.toKey = toKey],
             UnlinkStart(client, fromKey, toKey))
    /\ UNCHANGED generated

\* One attempt.  net is what the network and the service do with the
\* request: "serve" (the service answers it), or a fault the environment
\* injects (a response of its choice, or a transport error); dur is the
\* time the attempt would take with no timeout.
Attempt(net, dur) ==
    /\ pc = "inflight"
    /\ LET served == Serve(store, req, now)
           raw == IF net.kind = "serve"
                  THEN RespOutcome(served.resp, -1, dur)
                  ELSE [net EXCEPT !.dur = dur]
           out == HTTPDo(client, raw)
           step == DoStep(client, attempt, out)
           applied == net.kind = "serve" /\ ~out.timedOut
       IN  /\ attempt' = attempt + 1
           /\ last' = out
           /\ elapsed' = elapsed + out.dur + step.wait
           /\ store' = IF applied THEN served.store ELSE store
           /\ IF step.done
              THEN /\ pc' = "returned"
                   /\ result' = Finish(call, step.do)
              ELSE /\ pc' = "inflight"
                   /\ UNCHANGED result
           /\ saved' = IF (IF applied THEN served.store ELSE store) = <<>> THEN 0
                       ELSE IF step.done /\ call.op = "Save"
                               /\ Finish(call, step.do).err = NoErr
                       THEN saved + 1 ELSE saved
    /\ UNCHANGED <<client, call, req, now, generated, il, typed, peer>>

\* the caller takes the result and is ready for its next call
Return ==
    /\ pc = "returned"
    /\ pc' = "idle"
    /\ call' = NoCall
    /\ req' = NoReq
    /\ attempt' = 0
    /\ elapsed' = 0
    /\ last' = NoOutcome
    /\ result' = Ret(ValNil, NoErr)
    /\ UNCHANGED <<client, store, now, generated, saved, il, typed, peer>>

\* the panic of a call unwinds out of it with no result; a caller that
\* recovers from it is ready for its next call
Recover ==
    /\ pc = "panicked"
    /\ pc' = "idle"
    /\ call' = NoCall
    /\ req' = NoReq
    /\ attempt' = 0
    /\ elapsed' = 0
    /\ last' = NoOutcome
    /\ result' = Ret(ValNil, NoErr)
    /\ UNCHANGED <<client, store, now, generated, saved, il, typed, peer>>

(***************************************************************************)
(* The inputs of the model.                                                *)
(***************************************************************************)
Host == "http://127.0.0.1:8080"

\* the credentials of the tests
User == <<"a", "d", "m", "i", "n">>

Pwd == <<"a", "d", "m", "1", "n">>

\* the options New is given: none, or a timeout of its own
OptionsSet ==
    {NilOptions} \cup
    {[isNil |-> FALSE, InsecureSkipVerify |-> FALSE, Timeout |-> t] : t \in {0, MinTimeout}}

Clients == {New(Host, User, Pwd, o) : o \in OptionsSet}

\* a plain key, a key pattern, and keys that make no URL: a malformed
\* escape in the path, one in the fragment, and a control character
Keys == {<<"a">>, <<"I", "_", "?">>, <<"%">>, <<"?", "#", "%">>, <<"a", "\n">>}

ItemTypes == {"", "AAA"}

\* the values of the calls: one below the least timeout Validate accepts,
\* the least one and the default
Objs == {[InsecureSkipVerify |-> FALSE, Timeout |-> 10],
         [InsecureSkipVerify |-> FALSE, Timeout |-> MinTimeout],
         [InsecureSkipVerify |-> TRUE, Timeout |-> DefaultTimeout]}

\* struct { ClientOptions; owner int; Extra any }: with and without an
\* owner, Extra nil or holding the int 5 or a string
Audited ==
    {[InsecureSkipVerify |-> FALSE, Timeout |-> MinTimeout, owner |-> o, Extra |-> e] :
        o \in {0, 7}, e \in {NilDyn, [type |-> "int", b |-> FALSE, n |-> 5],
                              [type |-> "string", b |-> FALSE, n |-> 0]}}

\* struct { ClientOptions; Done chan bool }
Watched == {[InsecureSkipVerify |-> FALSE, Timeout |-> MinTimeout, Done |-> TRUE]}

\* the values SetType is called with: ClientOptions and a value with a
\* channel field
TypeObjs == Objs \cup Watched

\* the errors an item's Validate() returns
ValidationErrs == {Validate(o) : o \in Objs} \ {NoErr}

ItemArgs ==
    {ValidItem(p, o) : p \in BOOLEAN, o \in Objs}

Protos == {Proto(TRUE), Proto(FALSE)}

TagNames == {"", "status", "%zz"}

TagValues == {"", "dev"}

\* the tags LoadItemsByTag is given: none, one, and a name with its value
TagLists == {<<>>, <<"status">>, <<"status", "dev">>}

\* the faults the environment injects: responses of its own and transport errors
FaultCodes == {304, 400, 404, 429, 500, 501, 503}

Faults ==
    {RespOutcome(Response(c, TextBody("")), -1, 0) : c \in FaultCodes}
    \cup {RespOutcome(Response(400, TextBody("detail")), -1, 0)}
    \cup {RespOutcome(Response(200, Body(k, NoItem, <<>>, "")), -1, 0) : k \in {"garbage", "broken"}}
    \cup {ErrOutcome(TRUE, 0), ErrOutcome(FALSE, 0)}

ServeIt == Outcome("serve", NoResp, FALSE, FALSE, -1, 0)

StartOfModel == [day |-> 0, ms |-> 0]

NotTyped == [done |-> FALSE, list |-> <<>>, err |-> NoErr]

\* the state of a caller with no call in progress
NoPeer ==
    [pc |-> "idle", call |-> NoCall, req |-> NoReq, attempt |-> 0,
     last |-> NoOutcome, result |-> Ret(ValNil, NoErr)]

InitCaller ==
    /\ pc = "idle"
    /\ call = NoCall
    /\ req = NoReq
    /\ attempt = 0
    /\ elapsed = 0
    /\ last = NoOutcome
    /\ result = Ret(ValNil, NoErr)
    /\ peer = NoPeer

Init ==
    /\ client = New(Host, User, Pwd, NilOptions)
    /\ InitCaller
    /\ store = <<>>
    /\ now = StartOfModel
    /\ generated = <<>>
    /\ saved = 0
    /\ il = <<>>
    /\ typed = NotTyped

Next ==
    \/ \E k \in Keys, t \in ItemTypes, i \in ItemArgs : Save(k, t, i)
    \/ \E k \in Keys : LoadRaw(k)
    \/ \E k \in Keys, p \in Protos : Load(k, p)
    \/ \E t \in ItemTypes : LoadItemsByTypeRaw(t)
    \/ \E t \in ItemTypes : LoadItemsByType(t)
    \/ \E t \in ItemTypes : PopOldestRaw(t)
    \/ \E t \in ItemTypes, p \in Protos : PopOldest(t, p)
    \/ \E t \in ItemTypes : PopNewestRaw(t)
    \/ \E t \in ItemTypes, p \in Protos : PopNewest(t, p)
    \/ \E k \in Keys, n \in TagNames, v \in TagValues : Tag(k, n, v)
    \/ \E k \in Keys, n \in TagNames : Untag(k, n)
    \/ \E k \in Keys : Delete(k)
    \/ \E t \in ItemTypes, o \in TypeObjs : SetType(t, o)
    \/ \E ts \in TagLists : LoadItemsByTagRaw(ts)
    \/ \E ts \in TagLists : LoadItemsByTag(ts)
    \/ \E k \in Keys : LoadChildrenRaw(k)
    \/ \E k \in Keys : LoadChildren(k)
    \/ \E k \in Keys : LoadParentsRaw(k)
    \/ \E k \in Keys : LoadParents(k)
    \/ \E k \in Keys : Link(k, <<"a">>)
    \/ \E k \in Keys : Unlink(k, <<"a">>)
    \/ \E f \in Faults \cup {ServeIt} : Attempt(f, 0)
    \/ Return
    \/ Recover

Spec == Init /\ [][Next]_vars

(***************************************************************************)
(* The executor under time: attempts take time, the http.Client cuts an    *)
(* attempt at its Timeout, and the executor sleeps between attempts.       *)
(***************************************************************************)

\* seconds an attempt would take with no timeout
RawDurations == {0, 20, 90}

TimedFaults ==
    {RespOutcome(Response(400, TextBody("")), -1, 0),
     RespOutcome(Response(503, TextBody("")), -1, 0),
     RespOutcome(Response(429, TextBody("")), 30, 0),
     ErrOutcome(TRUE, 0), ErrOutcome(FALSE, 0)}

InitTimed ==
    /\ client \in Clients
    /\ InitCaller
    /\ store = <<>>
    /\ now = StartOfModel
    /\ generated = <<>>
    /\ saved = 0
    /\ il = <<>>
    /\ typed = NotTyped

NextTimed ==
    \/ Delete(<<"a">>)
    \/ \E f \in TimedFaults \cup {ServeIt}, d \in RawDurations : Attempt(f, d)
    \/ Return

SpecTimed == InitTimed /\ [][NextTimed]_vars

(***************************************************************************)
(* Properties of the operations (specification Spec).                      *)
(***************************************************************************)
NewestRoute == "/item/pop/newest/%s"

OldestRoute == "/item/pop/oldest/%s"

PopOps == {"PopOldestRaw", "PopNewestRaw", "PopOldest", "PopNewest"}

\* the call in progress, or just returned, ended before any request
SentNothing == pc = "returned" /\ attempt = 0 /\ req = NoReq

\* C1: a Save whose item fails Validate() sends no request and returns the
\* validation error itself, whatever the key and the item type
C1_SaveInvalidSendsNothing ==
    (call.op = "Save" /\ call.item.verr # NoErr)
        => (SentNothing /\ result.err = call.item.verr)

C1_Witness ==
    /\ pc = "returned"
    /\ call.op = "Save"
    /\ call.item.verr \in ValidationErrs
    /\ call.itemType = "AAA"
    /\ ~call.item.isPtr
    /\ result.err = call.item.verr
    /\ attempt = 0

\* C2: PopNewest sends its request to the newest route and PopOldest to the
\* oldest route, and with two or more items of the type in the store
\* PopNewest returns the newest of them and PopOldest the oldest
C2_PopRoutesDistinct ==
    [][/\ (call'.op = "PopNewest" /\ req' # NoReq) => req'.url.format = NewestRoute
       /\ (call'.op = "PopOldest" /\ req' # NoReq) => req'.url.format = OldestRoute
       /\ (/\ pc = "inflight" /\ pc' = "returned"
           /\ call.op \in {"PopNewest", "PopOldest"}
           /\ result'.err = NoErr /\ result'.val.tag = "obj"
           /\ Len(OfType(store, call.itemType)) >= 2)
          => LET items == OfType(store, call.itemType)
                 want == IF call.op = "PopNewest" THEN items[Len(items)] ELSE items[1]
             IN  result'.val.obj = Unmarshal(want.value, ZeroObj).obj]_vars

\* C3: for the pop operations a 404 response yields a nil item and a nil
\* error, and any other response above 299 yields a nil item and an error
\* whose message carries the response status text
C3_PopStatusMapping ==
    (pc = "returned" /\ call.op \in PopOps /\ last.kind = "response")
        => /\ last.resp.code = StatusNotFound
                => (result.val = ValNil /\ result.err = NoErr)
           /\ (last.resp.code > MaxSuccess /\ last.resp.code # StatusNotFound)
                => /\ result.val = ValNil
                   /\ result.err # NoErr
                   /\ result.err.status = last.resp.status

\* C5 as stated: no call sends more than 20 attempts
C5_AtMost20Attempts == attempt <= 20

\* C5: a call sends at most 21 attempts, the first and RetryMax = 20 retries
C5_AtMostRetryMaxPlusOne == attempt <= RetryMax + 1

C5_Witness ==
    /\ pc = "returned"
    /\ attempt = RetryMax + 1
    /\ result.err.kind = "transport"
    /\ result.err.attempts = RetryMax + 1

UsageCase ==
    \/ call.op = "Save" /\ (call.itemType = "" \/ call.item.isPtr)
    \/ call.op \in {"Tag", "Untag"} /\ call.tagName = ""
    \/ call.op \in {"Load", "PopOldest", "PopNewest"} /\ ~call.prototype.isPtr

\* C7: a client-side usage error (Save without an item type or with a
\* pointer item, Tag or Untag without a tag name, Load, PopOldest or
\* PopNewest with a prototype that is no pointer) returns an error and
\* sends no request
C7_UsageErrorsSendNothing ==
    UsageCase => (SentNothing /\ result.err # NoErr)

C7_Witness ==
    /\ pc = "returned"
    /\ call.op = "Save"
    /\ call.item.verr = NoErr
    /\ ~call.item.isPtr
    /\ call.itemType = ""
    /\ result.err.kind = "usage"
    /\ attempt = 0

(***************************************************************************)
(* Properties of the executor under time (specification SpecTimed).        *)
(***************************************************************************)

\* C6 as stated: the configured timeout bounds the whole retry sequence, so
\* a call has returned within the timeout of its first attempt
C6_TimeoutBoundsCall ==
    (pc = "returned" /\ client.timeout > 0) => elapsed <= client.timeout

\* C6: the configured timeout, when positive, bounds each attempt and not
\* the call: no attempt lasts longer than it, an attempt that reaches it
\* ends with a transport error, and a call that stops on such an attempt
\* returns a transport error
C6_TimeoutBoundsAttempt ==
    client.timeout > 0
        => /\ last.dur <= client.timeout
           /\ last.dur = client.timeout => (last.kind = "error" /\ last.timedOut)
           /\ (pc = "returned" /\ last.timedOut) => result.err.kind = "transport"

C6_Witness ==
    /\ pc = "returned"
    /\ client.timeout > 0
    /\ last.timedOut
    /\ last.dur = client.timeout
    /\ elapsed > client.timeout
    /\ result.err.kind = "transport"

(***************************************************************************)
(* Typed conversion of a collection (specification SpecTyped): IL.Typed    *)
(* applied to every collection of up to MaxLen items whose values decode,  *)
(* carry a member the type does not have, carry a member of the wrong      *)
(* type, or are not JSON.                                                  *)
(***************************************************************************)
RECURSIVE SeqsUpTo(_, _)
SeqsUpTo(S, n) ==
    IF n = 0 THEN {<<>>}
    ELSE LET shorter == SeqsUpTo(S, n - 1)
         IN  shorter \cup {Append(q, x) : q \in shorter, x \in S}

Values ==
    {Marshal(o).data : o \in Objs}
    \cup {Payload(TRUE, <<Member("extra", "str", FALSE, 0), Member("Timeout", "num", FALSE, 15)>>),
          Payload(TRUE, <<Member("timeout", "num", FALSE, 15)>>),
          Payload(TRUE, <<Member("Timeout", "str", FALSE, 0)>>),
          Payload(FALSE, <<>>)}

Decodes(v) == Unmarshal(v, ZeroObj).err = NoErr

InitTypedSpec ==
    /\ client = New(Host, User, Pwd, NilOptions)
    /\ InitCaller
    /\ store = <<>>
    /\ now = StartOfModel
    /\ generated = <<>>
    /\ saved = 0
    /\ il \in SeqsUpTo({Item(<<"a">>, "AAA", v, [day |-> 0, ms |-> 0]) : v \in Values}, MaxLen)
    /\ typed = NotTyped

\* items.Typed(factory) with a factory of new, zero values
TypedCall ==
    /\ ~typed.done
    /\ LET r == ILTyped(il, ZeroObj)
       IN  typed' = [done |-> TRUE, list |-> r.list, err |-> r.err]
    /\ UNCHANGED <<client, pc, call, req, attempt, elapsed, last, result, store,
                   now, generated, saved, il, peer>>

NextTyped == TypedCall

SpecTyped == InitTypedSpec /\ [][NextTyped]_vars

\* C4: IL.Typed is all-or-nothing: when an element fails to decode it
\* returns an error and no list at all, and when none fails it returns one
\* converted value per element and no error
C4_TypedAllOrNothing ==
    typed.done
        => IF \E k \in 1..Len(il) : ~Decodes(il[k].value)
           THEN typed.err # NoErr /\ typed.list = <<>>
           ELSE /\ typed.err = NoErr
                /\ Len(typed.list) = Len(il)
                /\ \A k \in 1..Len(il) :
                       typed.list[k] = Unmarshal(il[k].value, ZeroObj).obj

C4_Witness ==
    /\ typed.done
    /\ Len(il) = 3
    /\ Decodes(il[1].value) /\ Decodes(il[2].value) /\ ~Decodes(il[3].value)
    /\ typed.err # NoErr
    /\ typed.list = <<>>

(***************************************************************************)
(* Key sequencing (specification SpecKeys): Save calls under one key       *)
(* pattern while the wall clock advances, then a load of the type.         *)
(***************************************************************************)
Hour == 60 * 60 * 1000

\* instants just before a change of second, hour, 12-hour half, month and year
ClockStarts ==
    {[day |-> 0, ms |-> 10 * Hour - 2],
     [day |-> 0, ms |-> 13 * Hour - 2],
     [day |-> 58, ms |-> MsPerDay - 1],
     [day |-> 364, ms |-> MsPerDay - 2]}

Patterns == SeqsUpTo({"a", "?"}, MaxLen) \ {<<>>}

InitKeys ==
    /\ client = New(Host, User, Pwd, NilOptions)
    /\ InitCaller
    /\ store = <<>>
    /\ now \in ClockStarts
    /\ generated = <<>>
    /\ saved = 0
    /\ il = <<>>
    /\ typed = NotTyped

\* the values the test passes to Save, in call order; their timeouts are
\* kept as the numbers the test writes, all below MinTimeout
TestObjs ==
    <<[InsecureSkipVerify |-> FALSE, Timeout |-> 10],
      [InsecureSkipVerify |-> FALSE, Timeout |-> 15],
      [InsecureSkipVerify |-> TRUE, Timeout |-> 20]>>

NthObj(n) == TestObjs[(n % Len(TestObjs)) + 1]

\* the value of the test a caller passes with a timeout Validate accepts
Accepted(o) == [o EXCEPT !.Timeout = MinTimeout + @]

\* a millisecond passes
Tick ==
    /\ \E s \in ClockStarts, k \in 0..(MaxTicks - 1) : now = AddMs(s, k)
    /\ now' = AddMs(now, 1)
    /\ UNCHANGED <<client, pc, call, req, attempt, elapsed, last, result, store,
                   generated, saved, il, typed, peer>>

\* Save under the pattern of the calls before it; the key in the request it
\* builds, when it builds one, is recorded with the pattern and the time of
\* the call
SaveRecorded(key, itemType, item) ==
    /\ generated # <<>> => key = generated[1].pattern
    /\ SaveCall(key, itemType, item)
    /\ generated' = IF pc' = "inflight"
                    THEN Append(generated,
                                [pattern |-> key, at |-> now, key |-> req'.url.args[1]])
                    ELSE generated

NextKeys ==
    \/ Tick
    \/ \E k \in Patterns, n \in 0..(Len(TestObjs) - 1) :
           SaveRecorded(k, "AAA", ValidItem(FALSE, NthObj(n)))
    \/ \E k \in Patterns :
           SaveRecorded(k, "AAA", ValidItem(FALSE, Accepted(NthObj(Len(generated)))))
    \/ LoadItemsByType("AAA")
    \/ Attempt(ServeIt, 0)
    \/ Return

SpecKeys == InitKeys /\ [][NextKeys]_vars

\* the key Save must build from pattern p at time t
Resolved(p, t, k) ==
    IF \E i \in 1..Len(p) : p[i] = "?"
    THEN LET i == CHOOSE i \in 1..Len(p) : p[i] = "?" /\ \A j \in 1..(i - 1) : p[j] # "?"
             stamp == FormatNow(t)
         IN  /\ Len(stamp) = 18 /\ stamp[15] = "."
             /\ Len(k) = Len(p) - 1 + Len(stamp)
             /\ \A j \in 1..(i - 1) : k[j] = p[j]
             /\ \A j \in 1..Len(stamp) : k[i - 1 + j] = stamp[j]
             /\ \A j \in (i + 1)..Len(p) : k[j - 1 + Len(stamp)] = p[j]
    ELSE k = p

\* C8: Save replaces exactly the first '?' of its key by the UTC timestamp
\* YYYYMMDDhhmmss.mmm and leaves every character before and after it, a
\* later '?' included, as it is; a key with no '?' is used unchanged
C8_FirstWildcardReplaced ==
    \A n \in 1..Len(generated) :
        Resolved(generated[n].pattern, generated[n].at, generated[n].key)

C8_Witness ==
    /\ pc = "inflight"
    /\ call.op = "Save"
    /\ call.key = <<"?", "a", "?">>
    /\ Len(req.url.args[1]) = 20
    /\ req.url.args[1][19] = "a"
    /\ req.url.args[1][20] = "?"

Wild(n) == Contains(generated[n].pattern, Wildcard)

\* C9: Save calls under one wildcard pattern in rapid succession produce
\* pairwise distinct keys, so that a following LoadItemsByType returns one
\* item per Save, each decoding to a value that was saved
C9_DistinctKeys ==
    /\ \A m, n \in 1..Len(generated) :
           (m < n /\ Wild(m)) => generated[m].key # generated[n].key
    /\ (/\ pc = "returned" /\ call.op = "LoadItemsByType" /\ result.err = NoErr
        /\ generated # <<>> /\ Wild(1))
           => /\ Len(result.val.list) = saved
              /\ \A k \in 1..Len(result.val.list) :
                     \E n \in 0..(Len(generated) - 1) :
                         result.val.list[k] = Accepted(NthObj(n))

\* C10: of two Save calls under one wildcard pattern whose key resolutions
\* are at least a millisecond apart, the later call's key is
\* lexicographically greater than or equal to the earlier call's
C10_KeysNonDecreasing ==
    \A m, n \in 1..Len(generated) :
        (m < n /\ Wild(m) /\ AtLeastAfter(generated[m].at, generated[n].at, 1))
            => LexLeq(generated[m].key, generated[n].key)

C10_Witness ==
    /\ Len(generated) >= 2
    /\ Wild(1)
    /\ generated[1].at.day = 364
    /\ generated[2].at.day = 365
    /\ generated[1].key # generated[2].key
    /\ LexLeq(generated[1].key, generated[2].key)

(***************************************************************************)
(* The round trip of a value (specification SpecRound): a caller saves     *)
(* each value under a key of its own and loads the keys back into new,     *)
(* zero prototypes of the value's type, while the network fails some of    *)
(* the attempts.  The values are ClientOptions and values of structs of    *)
(* the caller that embed it.                                               *)
(***************************************************************************)
RoundObjs ==
    {[InsecureSkipVerify |-> b, Timeout |-> n] : b \in BOOLEAN, n \in {0, 30, 60}}
    \cup Audited \cup Watched

\* the key the caller saves value v under
RoundKey(v) ==
    <<IF v.InsecureSkipVerify THEN "t" ELSE "f">> \o Pad(v.Timeout, 2)
    \o (IF "owner" \in DOMAIN v
        THEN <<"o">> \o Pad(v.owner, 1) \o <<IF v.Extra = NilDyn THEN "n"
                                                  ELSE IF v.Extra.type = "string" THEN "s"
                                                  ELSE "i">>
        ELSE <<>>)
    \o (IF "Done" \in DOMAIN v THEN <<"d">> ELSE <<>>)

RoundFaults ==
    {RespOutcome(Response(404, TextBody("")), -1, 0),
     RespOutcome(Response(200, Body("garbage", NoItem, <<>>, "")), -1, 0),
     ErrOutcome(FALSE, 0)}

NextRound ==
    \/ \E v \in RoundObjs : Save(RoundKey(v), "AAA", ValidItem(FALSE, v))
    \/ \E v \in RoundObjs, isPtr \in BOOLEAN :
           Load(RoundKey(v), [isPtr |-> isPtr, obj |-> Zero(v)])
    \/ \E f \in RoundFaults \cup {ServeIt} : Attempt(f, 0)
    \/ Return

SpecRound == Init /\ [][NextRound]_vars

\* the Load that returned was answered with the item stored under its key
LoadedStored ==
    /\ pc = "returned"
    /\ call.op = "Load"
    /\ call.prototype.isPtr
    /\ last.kind = "response"
    /\ last.resp.code = 200
    /\ last.resp.body.kind = "item"

\* every field of v's type is exported and holds a boolean or an integer
Restorable(v) ==
    \A name \in DOMAIN v :
        \E i \in 1..Len(Layout) :
            /\ Layout[i].name = name
            /\ Layout[i].exported
            /\ Layout[i].kind \in {"bool", "num"}

\* C11 as stated: a value of any concrete type saved under a key and loaded
\* back from the store into a new, zero prototype of its type comes back
\* equal to the value saved, with no error
C11_RoundTripEveryType ==
    LoadedStored
        => \E v \in RoundObjs :
               /\ call.key = RoundKey(v)
               /\ result = Ret(ValObj(v), NoErr)

\* C11: a value of a struct type whose fields are all exported and hold
\* booleans or integers, saved under a key and loaded back from the store
\* into a new, zero prototype of its type, comes back equal to the value
\* saved, with no error; of a value of another struct type the exported
\* boolean and integer fields come back equal, with no error
C11_RoundTrip ==
    LoadedStored
        => \E v \in RoundObjs :
               /\ call.key = RoundKey(v)
               /\ last.resp.body.item.value = Marshal(v).data
               /\ result.err = NoErr
               /\ Restorable(v) => result.val = ValObj(v)
               /\ result.val.tag = "obj"
               /\ DOMAIN result.val.obj = DOMAIN v
               /\ result.val.obj.InsecureSkipVerify = v.InsecureSkipVerify
               /\ result.val.obj.Timeout = v.Timeout

C11_Witness ==
    /\ LoadedStored
    /\ call.key = <<"t", "6", "0">>
    /\ result.err = NoErr
    /\ result.val.obj = [InsecureSkipVerify |-> TRUE, Timeout |-> 60]

(***************************************************************************)
(* Error mapping, headers and routes of the operations (specification      *)
(* Spec).                                                                  *)
(***************************************************************************)
StatusOps ==
    {"SetType", "Save", "LoadRaw", "LoadItemsByTagRaw", "LoadItemsByTag",
     "LoadItemsByTypeRaw", "LoadItemsByType", "LoadChildrenRaw", "LoadChildren",
     "LoadParentsRaw", "LoadParents", "Tag", "Untag", "Link", "Unlink", "Delete"}

\* C12: for SetType, Save, LoadRaw, the collection reads, Tag, Untag, Link,
\* Unlink and Delete, a response with a status above 299 yields an error
\* that carries the response's status line and, when the response body is
\* not empty, the body text
C12_RemoteErrorCarriesStatusAndBody ==
    (/\ pc = "returned"
     /\ call.op \in StatusOps
     /\ last.kind = "response"
     /\ last.resp.code > MaxSuccess)
        => /\ result.err # NoErr
           /\ result.err.status = last.resp.status
           /\ last.resp.body.text # "" => result.err.detail = last.resp.body.text

\* the segment the claim gives the tag route
TagSegment ==
    IF call.tagValue = "" THEN <<call.tagName>>
    ELSE <<call.tagName, "|", call.tagValue>>

\* the request the claim gives a Tag call
TagRequest ==
    /\ req.method = "PUT"
    /\ req.body = NoPayload
    /\ req.url.host = client.host
    /\ req.url.format = "/item/%s/tag/%s"
    /\ req.url.args = <<call.key, TagSegment>>

\* C14 as stated: a Tag call with a tag name that has returned has sent
\* exactly one PUT, to /item/{itemKey}/tag/{segment}, the segment being the
\* tag name alone when the tag value is empty and name|value when it is not
C14_ExactlyOnePut ==
    (pc = "returned" /\ call.op = "Tag" /\ call.tagName # "")
        => (attempt = 1 /\ TagRequest)

\* C14: Tag with a tag name, when the item key, the tag name and the tag
\* value hold no "%", "?", "#" or control character, builds one request, a
\* PUT with no body to /item/{itemKey}/tag/{segment} on the client's host,
\* the segment being the tag name alone when the tag value is empty and
\* name|value when it is not, and sends it once per attempt, at least once
\* and at most RetryMax + 1 = 21 times; a call that sent it more than once
\* was retried by the executor, and one that ends on an answer the executor
\* does not retry has sent it that once more and no further.  When the item
\* key holds a control character with no "#" before it, or the item key or
\* the tag name holds a "%" that is not followed by two hexadecimal digits
\* and stands where no "?" or a "#" comes before it, the text is no URL:
\* Tag returns the error of building the request and sends nothing
C14_TagRoute ==
    LET special == {"%", "?", "#", "\n", "\t", "\r"}
        \* of the tag names and values of the model only "%zz" holds one
        plain == /\ \A i \in 1..Len(call.key) : call.key[i] \notin special
                 /\ call.tagName # "%zz"
                 /\ call.tagValue # "%zz"
        parsed(i) == \/ \A j \in 1..(i - 1) : call.key[j] # "?"
                     \/ \E j \in 1..(i - 1) : call.key[j] = "#"
        noUrl == \/ \E i \in 1..Len(call.key) :
                        /\ call.key[i] \in {"\n", "\t", "\r"}
                        /\ \A j \in 1..(i - 1) : call.key[j] # "#"
                 \/ \E i \in 1..Len(call.key) :
                        /\ call.key[i] = "%"
                        /\ i + 2 > Len(call.key)
                        /\ parsed(i)
                 \/ call.tagName = "%zz" /\ parsed(Len(call.key) + 1)
    IN  (call.op = "Tag" /\ call.tagName # "")
            => /\ plain
                    => /\ TagRequest
                       /\ attempt <= RetryMax + 1
                       /\ pc = "returned" => attempt >= 1
                       /\ (pc = "inflight" /\ attempt >= 1)
                              => \/ last.kind = "error" /\ last.retryable
                                 \/ last.kind = "response" /\ last.resp.code = 429
                                 \/ /\ last.kind = "response"
                                    /\ last.resp.code >= 500
                                    /\ last.resp.code # 501
               /\ noUrl
                    => /\ SentNothing
                       /\ result.err # NoErr
                       /\ result.err.kind = "request"

C14_Witness ==
    /\ pc = "returned"
    /\ call.op = "Tag"
    /\ call.tagName = "status"
    /\ call.tagValue = "dev"
    /\ req.url.args = << <<"a">>, <<"status", "|", "dev">> >>
    /\ attempt = 2
    /\ result.err = NoErr

(***************************************************************************)
(* The headers of the requests (specification SpecAuth): clients built     *)
(* with several credentials, each on a host of its own, call every         *)
(* operation.  token is the Authorization header RFC 7617 gives the        *)
(* credentials.                                                            *)
(***************************************************************************)
Creds ==
    {[host |-> Host, user |-> User, pwd |-> Pwd,
      token |-> <<"B", "a", "s", "i", "c", " ", "Y", "W", "R", "t", "a", "W", "4", "6", "Y", "W", "R", "t", "M", "W", "4", "=">>],
     [host |-> "http://h0", user |-> <<>>, pwd |-> <<>>,
      token |-> <<"B", "a", "s", "i", "c", " ", "O", "g", "=", "=">>],
     [host |-> "http://h1", user |-> <<"a">>, pwd |-> <<>>,
      token |-> <<"B", "a", "s", "i", "c", " ", "Y", "T", "o", "=">>],
     [host |-> "http://h2", user |-> <<"a">>, pwd |-> <<"b">>,
      token |-> <<"B", "a", "s", "i", "c", " ", "Y", "T", "p", "i">>],
     [host |-> "http://h3", user |-> <<"a", "b">>, pwd |-> <<"c">>,
      token |-> <<"B", "a", "s", "i", "c", " ", "Y", "W", "I", "6", "Y", "w", "=", "=">>]}

InitAuth ==
    /\ client \in {New(cr.host, cr.user, cr.pwd, NilOptions) : cr \in Creds}
    /\ InitCaller
    /\ store = <<>>
    /\ now = StartOfModel
    /\ generated = <<>>
    /\ saved = 0
    /\ il = <<>>
    /\ typed = NotTyped

NextAuth ==
    \/ \E t \in ItemTypes : \E o \in Objs : Save(<<"a">>, t, ValidItem(FALSE, o))
    \/ LoadRaw(<<"a">>)
    \/ Load(<<"a">>, Proto(TRUE))
    \/ LoadItemsByTypeRaw("AAA")
    \/ LoadItemsByType("AAA")
    \/ PopOldestRaw("AAA")
    \/ PopOldest("AAA", Proto(TRUE))
    \/ PopNewestRaw("AAA")
    \/ PopNewest("AAA", Proto(TRUE))
    \/ \E v \in TagValues : Tag(<<"a">>, "status", v)
    \/ Untag(<<"a">>, "status")
    \/ Delete(<<"a">>)
    \/ SetType("AAA", ZeroObj)
    \/ LoadItemsByTagRaw(<<"status">>)
    \/ LoadItemsByTag(<<"status">>)
    \/ LoadChildrenRaw(<<"a">>)
    \/ LoadChildren(<<"a">>)
    \/ LoadParentsRaw(<<"a">>)
    \/ LoadParents(<<"a">>)
    \/ Link(<<"a">>, <<"a">>)
    \/ Unlink(<<"a">>, <<"a">>)
    \/ \E f \in {ServeIt, ErrOutcome(TRUE, 0)} : Attempt(f, 0)
    \/ Return

SpecAuth == InitAuth /\ [][NextAuth]_vars

\* C13: every request a client's operation sends carries the Authorization
\* header "Basic " followed by the base64 encoding of user:pwd given at
\* construction, and the User-Agent header naming the client and its
\* version; a Save request also carries Source-Type, the item type given
C13_RequestHeaders ==
    \A cr \in Creds :
        (client.host = cr.host /\ (req # NoReq \/ attempt > 0))
            => /\ req.auth = cr.token
               /\ req.agent = "SW-SOURCE-CLIENT-<Version>"
               /\ call.op = "Save" => req.sourceType = call.itemType

C13_Witness ==
    /\ pc = "returned"
    /\ call.op = "Save"
    /\ call.itemType = "AAA"
    /\ attempt = RetryMax + 1
    /\ client.host = "http://h3"
    /\ req.auth = <<"B", "a", "s", "i", "c", " ", "Y", "W", "I", "6", "Y", "w", "=", "=">>
    /\ req.sourceType = "AAA"

(***************************************************************************)
(* Validation of client options (specification SpecOptions): Validate is   *)
(* called on options of every timeout from 30 seconds below zero to past   *)
(* the default.                                                            *)
(***************************************************************************)
TimeoutsTried == (0 - MinTimeout)..(DefaultTimeout + MaxTicks)

OptionsTried ==
    {[InsecureSkipVerify |-> b, Timeout |-> t] : b \in BOOLEAN, t \in TimeoutsTried}

\* o.Validate() called by the caller
ValidateCall(o) ==
    /\ pc = "idle"
    /\ pc' = "returned"
    /\ call' = Call("Validate", <<>>, "", ValidItem(FALSE, o), "", "", Proto(FALSE))
    /\ result' = Ret(ValNil, Validate(o))
    /\ UNCHANGED <<client, req, attempt, elapsed, last, store, now, generated,
                   saved, il, typed, peer>>

NextOptions ==
    \/ \E o \in OptionsTried : ValidateCall(o)
    \/ Return

SpecOptions == Init /\ [][NextOptions]_vars

\* C15: ClientOptions.Validate returns an error for every timeout below 30
\* seconds and no error for every timeout of 30 seconds or more, 30 seconds
\* itself included, whatever the other option
C15_ValidateThreshold ==
    (pc = "returned" /\ call.op = "Validate")
        => (result.err # NoErr <=> call.item.obj.Timeout < 30)

C15_Witness ==
    /\ pc = "returned"
    /\ call.op = "Validate"
    /\ call.item.obj.Timeout = 30
    /\ result.err = NoErr

(***************************************************************************)
(* Termination of a call (specification SpecLive).  The executor's loop    *)
(* runs: an attempt that can end does end (weak fairness of the attempts). *)
(* The one attempt that cannot end is the attempt the service never        *)
(* answers on a client whose http.Client has no Timeout: c.Do blocks in    *)
(* it, and the operation with it.                                          *)
(***************************************************************************)
LiveFaults ==
    {RespOutcome(Response(503, TextBody("")), -1, 0),
     ErrOutcome(TRUE, 0), ErrOutcome(FALSE, 0)}

LiveDurations == {0, 90}

\* the service accepts the request and never answers.  With a Timeout the
\* http.Client cuts the attempt (Attempt with a duration past the Timeout);
\* with a Timeout of zero nothing does
Silence ==
    /\ pc = "inflight"
    /\ client.timeout <= 0
    /\ pc' = "blocked"
    /\ UNCHANGED <<client, call, req, attempt, elapsed, last, result, store, now,
                   generated, saved, il, typed, peer>>

AttemptLive == \E f \in LiveFaults \cup {ServeIt}, d \in LiveDurations : Attempt(f, d)

NextLive ==
    \/ Delete(<<"a">>)
    \/ LoadRaw(<<"a">>)
    \/ AttemptLive
    \/ Silence
    \/ Return

SpecLive == InitTimed /\ [][NextLive]_vars /\ WF_vars(AttemptLive)

\* C16: every call returns to its caller whatever the service and the
\* network do, and a call whose transport failure outlasts the retry budget
\* returns a transport error
C16_EveryCallReturns ==
    /\ (pc = "inflight") ~> (pc = "returned")
    /\ []((/\ pc = "returned"
            /\ last.kind = "error"
            /\ last.retryable
            /\ attempt = RetryMax + 1)
               => result.err.kind = "transport")

\* the calls of a client whose timeout is positive all return
PositiveTimeoutReturns ==
    (pc = "inflight" /\ client.timeout > 0) ~> (pc = "returned")

(***************************************************************************)
(* Concurrent calls (specification SpecConc): two callers share one client *)
(* and call Save, Load and Delete on the same keys; their calls interleave *)
(* attempt by attempt, and the service answers each attempt from the store *)
(* as it is then.                                                          *)
(***************************************************************************)
ConcKeys == {<<"a">>, <<"b">>}

\* the first caller's attempts are answered or refused; the second caller's
\* are answered or fail in transit, and are then retried
ConcFaults == {RespOutcome(Response(400, TextBody("")), -1, 0)}

PeerFaults == {ErrOutcome(TRUE, 0)}

\* the second caller starts a call: the operation's code up to c.Do
PeerBegin(cl, start) ==
    /\ peer.pc = "idle"
    /\ peer' = [pc |-> IF start.err # NoErr THEN "returned" ELSE "inflight",
                call |-> cl, req |-> start.req, attempt |-> 0,
                last |-> NoOutcome, result |-> Ret(ValNil, start.err)]
    /\ UNCHANGED <<client, pc, call, req, attempt, elapsed, last, result, store,
                   now, generated, saved, il, typed>>

PeerSave(key, itemType, item) ==
    /\ saved < MaxItems
    /\ PeerBegin(Call("Save", key, itemType, item, "", "", Proto(FALSE)),
                 SaveStart(client, key, itemType, item, now))

PeerLoad(itemKey, prototype) ==
    PeerBegin(Call("Load", itemKey, "", NoItemArg, "", "", prototype),
              LoadStart(client, itemKey, prototype))

PeerDelete(key) ==
    PeerBegin(Call("Delete", key, "", NoItemArg, "", "", Proto(FALSE)),
              DeleteStart(client, key))

\* one attempt of the second caller's call
PeerAttempt(net) ==
    /\ peer.pc = "inflight"
    /\ LET served == Serve(store, peer.req, now)
           raw == IF net.kind = "serve" THEN RespOutcome(served.resp, -1, 0) ELSE net
           out == HTTPDo(client, raw)
           step == DoStep(client, peer.attempt, out)
           applied == net.kind = "serve" /\ ~out.timedOut
           after == IF applied THEN served.store ELSE store
       IN  /\ peer' = [peer EXCEPT
                         !.attempt = @ + 1,
                         !.last = out,
                         !.pc = IF step.done THEN "returned" ELSE "inflight",
                         !.result = IF step.done THEN Finish(peer.call, step.do) ELSE @]
           /\ store' = after
           /\ saved' = IF after = <<>> THEN 0
                       ELSE IF step.done /\ peer.call.op = "Save"
                               /\ Finish(peer.call, step.do).err = NoErr
                       THEN saved + 1 ELSE saved
    /\ UNCHANGED <<client, pc, call, req, attempt, elapsed, last, result, now,
                   generated, il, typed>>

PeerReturn ==
    /\ peer.pc = "returned"
    /\ peer' = NoPeer
    /\ UNCHANGED <<client, pc, call, req, attempt, elapsed, last, result, store,
                   now, generated, saved, il, typed>>

NextConc ==
    \/ \E k \in ConcKeys, o \in Objs : Save(k, "AAA", ValidItem(FALSE, o))
    \/ \E k \in ConcKeys : Load(k, Proto(TRUE))
    \/ \E k \in ConcKeys : Delete(k)
    \/ \E f \in ConcFaults \cup {ServeIt} : Attempt(f, 0)
    \/ Return
    \/ \E k \in ConcKeys : PeerSave(k, "AAA", ValidItem(FALSE, [ZeroObj EXCEPT !.Timeout = MinTimeout]))
    \/ \E k \in ConcKeys : PeerLoad(k, Proto(TRUE))
    \/ \E k \in ConcKeys : PeerDelete(k)
    \/ \E f \in PeerFaults \cup {ServeIt} : PeerAttempt(f)
    \/ PeerReturn

SpecConc == Init /\ [][NextConc]_vars

\* the request the arguments of call cl determine on the client of the tests
OwnRequest(cl) ==
    [method |-> CASE cl.op = "Save" -> "PUT"
                  [] cl.op = "Load" -> "GET"
                  [] cl.op = "Delete" -> "DELETE",
     url |-> [host |-> "http://127.0.0.1:8080", format |-> "/item/%s",
              args |-> <<cl.key>>],
     body |-> IF cl.op = "Save" THEN Marshal(cl.item.obj).data ELSE NoPayload,
     auth |-> <<"B", "a", "s", "i", "c", " ", "Y", "W", "R", "t", "a", "W",
                "4", "6", "Y", "W", "R", "t", "M", "W", "4", "=">>,
     agent |-> "SW-SOURCE-CLIENT-<Version>",
     sourceType |-> IF cl.op = "Save" THEN cl.itemType ELSE ""]

\* the result call cl returns when its n-th attempt, which ended with out,
\* was its last
OwnResult(cl, n, out) ==
    Finish(cl, DoStep(New(Host, User, Pwd, NilOptions), n - 1, out).do)

\* a caller's request and result are those its own call and response give
Independent(p, cl, rq, n, out, res) ==
    /\ (p = "inflight" \/ (p = "returned" /\ n > 0)) => rq = OwnRequest(cl)
    /\ (p = "returned" /\ n > 0) => res = OwnResult(cl, n, out)

\* C17: the client stays as New built it, and whatever the interleaving of
\* two callers' calls, the request a call sends is the one its own
\* arguments determine and its result is the one its own last response
\* determines
C17_CallsIndependent ==
    /\ client = New(Host, User, Pwd, NilOptions)
    /\ client.host = "http://127.0.0.1:8080"
    /\ Independent(pc, call, req, attempt, last, result)
    /\ Independent(peer.pc, peer.call, peer.req, peer.attempt, peer.last, peer.result)

C17_Witness ==
    /\ pc = "returned"
    /\ call.op = "Load"
    /\ call.key = <<"a">>
    /\ result.err = NoErr
    /\ peer.pc = "inflight"
    /\ peer.attempt >= 1
    /\ peer.call.op = "Save"
    /\ peer.call.key = <<"b">>

====
